---------------------------- MODULE Spec2Model ----------------------------
(***************************************************************************)
(* A model of pyrev (a linter for Re:VIEW markup): the problem reporter,   *)
(* the inline and block state machines, the document parser and the part   *)
(* of the project model that orders the documents of a book.               *)
(*                                                                         *)
(* Python objects are records, lists are sequences, strings are sequences  *)
(* of one-character strings (so that prefixes, stripping and joining are   *)
(* computed), None is the value None, and a raised exception is the field  *)
(* exc of the world record the operators thread through a call.            *)
(***************************************************************************)
EXTENDS Integers, Sequences, FiniteSets, TLC

VARIABLES
    reporter,    \* ProblemReporter of the run (Parser.reporter in parser runs)
    reporter2,   \* a second ProblemReporter fed the same report() calls
    parser,      \* Parser fields
    bsm,         \* Parser.bsm: the BlockStateMachine of the current document
    ism,         \* BlockStateMachine._ism: the inline machine of a block opening
    project,     \* ReVIEWProject fields the parser reads
    exc,         \* exception that left the last call ("none" when it returned)
    pc,          \* position of the driver
    input,       \* what has been fed so far (history of the inputs)
    last         \* the last call made and what it returned (history)

vars == <<reporter, reporter2, parser, bsm, ism, project, exc, pc, input, last>>

\* None where a string is expected, where an object is expected, and where a
\* line number is expected
None == <<"None">>
NoneObj == [type |-> "None"]
NoLine == 0
NoIndex == -1

----------------------------------------------------------------------------
(* Bounds of the model.                                                     *)

\* report() calls made in a reporter run
MaxReports == 4
\* parse_file() calls made on one Parser, and lines read over all of them
MaxDocs == 2
MaxLines == 4

----------------------------------------------------------------------------
(* logging levels (parser.py line 24) and the problem classes.              *)

DEBUG == 10
INFO == 20
WARNING == 30
ERROR == 40
CRITICAL == 50

Levels == {DEBUG, INFO, WARNING, ERROR, CRITICAL}

\* ParseError.LEVEL, ParseWarning.LEVEL, ParseInfo.LEVEL
ParseError_LEVEL == ERROR
ParseWarning_LEVEL == WARNING
ParseInfo_LEVEL == INFO

\* the class report() instantiates for a level
ProblemClass(error_level) ==
    IF error_level >= ParseError_LEVEL THEN "ParseError"
    ELSE IF error_level >= ParseWarning_LEVEL THEN "ParseWarning"
    ELSE IF error_level >= ParseInfo_LEVEL THEN "ParseInfo"
    ELSE "ParseDebug"

\* ParseProblem.__init__ (raw_content is not modelled: nothing reads it)
ParseProblem(error_level, source_name, line_num, desc) ==
    [level |-> error_level, cls |-> ProblemClass(error_level),
     source_name |-> source_name, line_num |-> line_num, desc |-> desc]

\* ProblemReporter.__init__
ProblemReporter(ignore_threshold, abort_threshold) ==
    [problems |-> <<>>,
     ignore_threshold |-> ignore_threshold,
     abort_threshold |-> abort_threshold]

\* a report() whose ignore test is off by one (<= for <)
report_IgnoreAtThreshold(rep, error_level, source_name, line_num, desc) ==
    LET problem == ParseProblem(error_level, source_name, line_num, desc) IN
    IF error_level <= rep.ignore_threshold
    THEN [rep |-> rep, out |-> "none", problem |-> NoneObj]
    ELSE IF error_level >= rep.abort_threshold
    THEN [rep |-> rep, out |-> "raise", problem |-> problem]
    ELSE [rep |-> [rep EXCEPT !.problems = Append(@, problem)],
          out |-> "return", problem |-> problem]

\* a report() that appends the problem before it raises it
report_AppendBeforeRaise(rep, error_level, source_name, line_num, desc) ==
    LET problem == ParseProblem(error_level, source_name, line_num, desc) IN
    IF error_level < rep.ignore_threshold
    THEN [rep |-> rep, out |-> "none", problem |-> NoneObj]
    ELSE IF error_level >= rep.abort_threshold
    THEN [rep |-> [rep EXCEPT !.problems = Append(@, problem)],
          out |-> "raise", problem |-> problem]
    ELSE [rep |-> [rep EXCEPT !.problems = Append(@, problem)],
          out |-> "return", problem |-> problem]

\* ProblemReporter.report: out is "none" (returned None), "raise" (raised the
\* problem) or "return" (appended and returned the problem)
ProblemReporter_report(rep, error_level, source_name, line_num, desc) ==
    LET problem == ParseProblem(error_level, source_name, line_num, desc) IN
    IF error_level < rep.ignore_threshold
    THEN [rep |-> rep, out |-> "none", problem |-> NoneObj]
    ELSE IF error_level >= rep.abort_threshold
    THEN [rep |-> rep, out |-> "raise", problem |-> problem]
    ELSE [rep |-> [rep EXCEPT !.problems = Append(@, problem)],
          out |-> "return", problem |-> problem]

----------------------------------------------------------------------------
(* Strings: sequences of one-character strings.                             *)

\* U+FEFF, the byte order mark, as one character
BOM == "BOM"

ascii_lowercase ==
    {"a","b","c","d","e","f","g","h","i","j","k","l","m",
     "n","o","p","q","r","s","t","u","v","w","x","y","z"}
ascii_uppercase ==
    {"A","B","C","D","E","F","G","H","I","J","K","L","M",
     "N","O","P","Q","R","S","T","U","V","W","X","Y","Z"}
digits == {"0","1","2","3","4","5","6","7","8","9"}
ascii_letters == ascii_lowercase \cup ascii_uppercase
whitespace == {" ", "\t", "\n", "\r"}

\* s[:n] and s[n:] of Python (n >= 0)
Take(s, n) == SubSeq(s, 1, IF n < Len(s) THEN n ELSE Len(s))
Drop(s, n) == SubSeq(s, n + 1, Len(s))
startswith(s, prefix) == Take(s, Len(prefix)) = prefix

\* unicode(line, 'utf-8-sig'): one leading byte order mark is dropped
utf_8_sig(line) ==
    IF Len(line) > 0 /\ line[1] = BOM THEN Tail(line) ELSE line

RECURSIVE rstrip(_)
\* unicode.rstrip(): trailing whitespace is dropped
rstrip(s) ==
    IF Len(s) > 0 /\ s[Len(s)] \in whitespace
    THEN rstrip(SubSeq(s, 1, Len(s) - 1))
    ELSE s

RECURSIVE RunLength(_, _)
\* the length of the longest prefix of s made of characters of set
RunLength(s, set) ==
    IF Len(s) > 0 /\ s[1] \in set THEN 1 + RunLength(Tail(s), set) ELSE 0

\* reduce(lambda x, y: x and (y in alnum), name, True)
all_alnum(name) ==
    \A i \in 1..Len(name) : name[i] \in (ascii_letters \cup digits)
\* reduce(lambda x, y: x or (y in string.ascii_uppercase), name, False)
has_uppercase(name) ==
    \E i \in 1..Len(name) : name[i] \in ascii_uppercase

\* os.path.splitext(name)[0]: the name without its last ".ext" (a leading
\* dot does not start an extension)
splitext_head(name) ==
    LET dots == {i \in 2..Len(name) : name[i] = "."} IN
    IF dots = {} THEN name
    ELSE SubSeq(name, 1, (CHOOSE i \in dots : \A j \in dots : j <= i) - 1)

----------------------------------------------------------------------------
(* The world a call works on: w.rep the reporter, w.par the parser, w.bsm   *)
(* its block machine, w.ism the inline machine in use, w.prj the project,   *)
(* w.exc the exception being raised ("none": none). A statement after a     *)
(* raise is not executed: Then(w1, w2) is w2, the effect of the statement   *)
(* on w1, unless w1 is raising.                                             *)

Then(w1, w2) == IF w1.exc # "none" THEN w1 ELSE w2

Raise(w, exception) == Then(w, [w EXCEPT !.exc = exception])

\* a returned value: None, a str, an Inline or a Block
RetNone == NoneObj
RetStr(s) == [type |-> "str", s |-> s]

\* what the caller of report() is left with: the raised problem, or the
\* reporter with the problem appended (or untouched)
report_result(w, r) ==
    Then(w, IF r.out = "raise"
            THEN [w EXCEPT !.exc = "ParseProblem"]
            ELSE [w EXCEPT !.rep = r.rep])

\* self.reporter.report(level, self.source_name, line_num, desc, ...) of the
\* parser and of its machines, which share the reporter and the source name
report(w, error_level, line_num, desc) ==
    report_result(w, ProblemReporter_report(w.rep, error_level,
                                            w.par.source_name, line_num,
                                            desc))

\* ProblemReporter.error / warning / info
_error(w, line_num, desc) == report(w, ERROR, line_num, desc)
_warning(w, line_num, desc) == report(w, WARNING, line_num, desc)
_info(w, line_num, desc) == report(w, INFO, line_num, desc)

\* if cond: self.reporter.error(...) / warning(...) / info(...)
error_if(cond, w, line_num, desc) ==
    IF cond THEN _error(w, line_num, desc) ELSE w
warning_if(cond, w, line_num, desc) ==
    IF cond THEN _warning(w, line_num, desc) ELSE w
info_if(cond, w, line_num, desc) ==
    IF cond THEN _info(w, line_num, desc) ELSE w
\* assert not cond
raise_if(cond, w, exception) ==
    IF cond THEN Raise(w, exception) ELSE w

----------------------------------------------------------------------------
(* Inline, Block and the tables of known names.                             *)

Inline(name, raw_content, line_num, position) ==
    [type |-> "Inline", name |-> name, raw_content |-> raw_content,
     line_num |-> line_num, position |-> position]

Block(name, params, has_content, uni_lines, line_num) ==
    [type |-> "Block", name |-> name, params |-> params,
     has_content |-> has_content, uni_lines |-> uni_lines,
     line_num |-> line_num]

n_list == <<"l","i","s","t">>
n_listnum == <<"l","i","s","t","n","u","m">>
n_img == <<"i","m","g">>
n_image == <<"i","m","a","g","e">>
n_table == <<"t","a","b","l","e">>
n_emlist == <<"e","m","l","i","s","t">>
n_lead == <<"l","e","a","d">>
n_footnote == <<"f","o","o","t","n","o","t","e">>
n_noindent == <<"n","o","i","n","d","e","n","t">>

\* Parser.allowed_inlines: the names, and the names with an end-of-file check
allowed_inlines ==
    {n_list, n_img, n_table, <<"h","r","e","f">>, <<"f","n">>,
     <<"t","i","t","l","e">>, <<"a","m","i">>,
     <<"c","h","a","p","r","e","f">>, <<"b">>, <<"i">>, <<"u">>, <<"m">>,
     <<"e","m">>, <<"k","w">>, <<"t","t">>, <<"t","t","i">>,
     <<"t","t","b">>, <<"b","o","u">>, <<"b","r">>, <<"c","o","d","e">>,
     <<"c","h","a","p">>, <<"u","c","h","a","r">>, <<"r","a","w">>}

\* Parser.allowed_blocks: name -> number of parameters of its last-line check
allowed_blocks ==
    {n_table, n_list, n_emlist, n_listnum, n_image, n_lead, n_footnote,
     n_noindent}
num_params(name) ==
    IF name \in {n_lead, n_noindent} THEN 0
    ELSE IF name = n_emlist THEN 1
    ELSE 2

\* Parser._remember_inline
Parser_remember_inline(w, inline) ==
    Then(w, [w EXCEPT !.par.current_inlines = Append(@, inline)])

\* a post-parse check that accepts every name
inline_postparse_check_AcceptsAll(w, inline) == w

\* Parser._inline_postparse_check (no known inline has a post-parse checker)
_inline_postparse_check(w, inline) ==
    IF inline.name \notin allowed_inlines
    THEN _error(w, inline.line_num, "Undefined inline")
    ELSE w

----------------------------------------------------------------------------
(* InlineStateMachine.                                                      *)

ISM_NONE == "ISM_NONE"
ISM_AT == "ISM_AT"
ISM_INLINE_TAG == "ISM_INLINE_TAG"
ISM_END_INLINE_TAG == "ISM_END_INLINE_TAG"
ISM_INLINE_CONTENT == "ISM_INLINE_CONTENT"
ISM_INLINE_CONTENT_BS == "ISM_INLINE_CONTENT_BS"
ISM_INLINE_CONTENT_AT == "ISM_INLINE_CONTENT_AT"

_inline_escape_allowed == {"}", "\\"}

\* InlineStateMachine.__init__ followed by reset()
InlineStateMachine(line_num) ==
    [state |-> ISM_NONE, name |-> None, unprocessed |-> <<>>,
     line_num |-> line_num]

\* InlineStateMachine.reset
ISM_reset(w) ==
    Then(w, [w EXCEPT !.ism.unprocessed = <<>>, !.ism.name = None,
                      !.ism.state = ISM_NONE])

\* the inline is finished: post-parse check, reset, return it
ISM_finish(w, new_inline) ==
    [w |-> ISM_reset(_inline_postparse_check(w, new_inline)),
     ret |-> new_inline]

\* self.name = name
ISM_set_name(w, name) == Then(w, [w EXCEPT !.ism.name = name])

\* self.unprocessed = []; self.state = state
ISM_clear_to(w, state) ==
    Then(w, [w EXCEPT !.ism.unprocessed = <<>>, !.ism.state = state])

\* self.unprocessed.append(...) for each character of s; self.state = state
ISM_append_to(w, s, state) ==
    Then(w, [w EXCEPT !.ism.unprocessed = @ \o s, !.ism.state = state])

\* parse_ch in state ISM_INLINE_TAG on ">"
ISM_tag_end(w) ==
    LET name == w.ism.unprocessed
        line_num == w.ism.line_num
    IN ISM_clear_to(
         info_if(has_uppercase(name),
           error_if(~all_alnum(name),
             ISM_set_name(
               error_if(Len(name) = 0,
                 raise_if(w.ism.name # None, w, "AssertionError"),
                 line_num, "Empty inline name"),
               name),
             line_num, "Inline name has non-alnum"),
           line_num, "Inline name has uppercase"),
         ISM_END_INLINE_TAG)

\* parse_ch in state ISM_END_INLINE_TAG on a character other than "{", after
\* the reset: "@" starts over in ISM_AT, another character is kept
ISM_tag_recover_state(w, ch) ==
    IF ch = "@" THEN Then(w, [w EXCEPT !.ism.state = ISM_AT])
    ELSE ISM_append_to(w, <<ch>>, ISM_NONE)

\* parse_ch in state ISM_END_INLINE_TAG on a character other than "{"
ISM_tag_recover(w, ch, pos) ==
    LET new_inline == Inline(w.ism.name, <<>>, w.ism.line_num, pos)
    IN [w |-> ISM_tag_recover_state(
                  ISM_reset(_inline_postparse_check(
                      _error(w, w.ism.line_num, "Wrong charactor"),
                      new_inline)),
                  ch),
        ret |-> new_inline]

\* parse_ch in state ISM_INLINE_CONTENT_AT on a character other than "}",
\* "<" and "@", with the state assigned ISM_INLINE_CONTENT
ISM_content_at_other_Assigns(w, ch) ==
    [w EXCEPT !.ism.unprocessed = @ \o <<"@", ch>>,
              !.ism.state = ISM_INLINE_CONTENT]

\* parse_ch in state ISM_INLINE_CONTENT_AT on a character other than "}",
\* "<" and "@": line 431 compares the state (==), it does not assign it
ISM_content_at_other(w, ch) ==
    [w EXCEPT !.ism.unprocessed = @ \o <<"@", ch>>]

\* InlineStateMachine.parse_ch: the world after the call and what it returns
InlineStateMachine_parse_ch(w, ch, pos) ==
    LET m == w.ism
        go(w1) == [w |-> w1, ret |-> RetNone]
    IN
    IF w.exc # "none" THEN go(w)
    ELSE IF m.state = ISM_NONE THEN
        IF ch = "@" THEN go([w EXCEPT !.ism.state = ISM_AT])
        ELSE IF m.unprocessed # <<>>
        THEN [w |-> ISM_reset(w), ret |-> RetStr(Append(m.unprocessed, ch))]
        ELSE [w |-> w, ret |-> RetStr(<<ch>>)]
    ELSE IF m.state = ISM_AT THEN
        IF ch = "<" THEN
            IF Len(m.unprocessed) # 0 THEN go(Raise(w, "AssertionError"))
            ELSE go([w EXCEPT !.ism.state = ISM_INLINE_TAG])
        ELSE IF ch = "@" THEN [w |-> w, ret |-> RetStr(<<"@">>)]
        ELSE [w |-> ISM_reset(w), ret |-> RetStr(<<"@", ch>>)]
    ELSE IF m.state = ISM_INLINE_TAG THEN
        IF ch = ">" THEN go(ISM_tag_end(w))
        ELSE go([w EXCEPT !.ism.unprocessed = Append(@, ch)])
    ELSE IF m.state = ISM_END_INLINE_TAG THEN
        IF ch = "{" THEN go([w EXCEPT !.ism.state = ISM_INLINE_CONTENT])
        ELSE ISM_tag_recover(w, ch, pos)
    ELSE IF m.state = ISM_INLINE_CONTENT THEN
        IF ch = "}"
        THEN ISM_finish(w, Inline(m.name, m.unprocessed, m.line_num, pos))
        ELSE IF ch = "@"
        THEN go([w EXCEPT !.ism.state = ISM_INLINE_CONTENT_AT])
        ELSE IF ch = "\\"
        THEN go([w EXCEPT !.ism.state = ISM_INLINE_CONTENT_BS])
        ELSE go([w EXCEPT !.ism.unprocessed = Append(@, ch)])
    ELSE IF m.state = ISM_INLINE_CONTENT_AT THEN
        IF ch = "}"
        THEN ISM_finish(w, Inline(m.name, Append(m.unprocessed, "@"),
                                  m.line_num, pos))
        ELSE IF ch = "<"
        THEN go(ISM_append_to(
                    _info(w, m.line_num, "Possible nested inline tag"),
                    <<"@", ch>>, ISM_INLINE_CONTENT))
        ELSE IF ch = "@"
        THEN go([w EXCEPT !.ism.unprocessed = Append(@, "@")])
        ELSE go(ISM_content_at_other(w, ch))
    ELSE IF m.state = ISM_INLINE_CONTENT_BS THEN
        IF ch \in _inline_escape_allowed
        THEN go([w EXCEPT !.ism.unprocessed = Append(@, ch),
                          !.ism.state = ISM_INLINE_CONTENT])
        ELSE go(ISM_append_to(
                    _info(w, m.line_num, "Backslash is not effective"),
                    <<"\\", ch>>, ISM_INLINE_CONTENT))
    ELSE go(Raise(w, "RuntimeError"))

\* an end() that drops the "@" it holds
ISM_end_at_ReturnsNone(w) == [w |-> w, ret |-> RetNone]

\* InlineStateMachine.end in ISM_AT: return '@'
ISM_end_at(w) == [w |-> w, ret |-> RetStr(<<"@">>)]

\* InlineStateMachine.end: the world after the call and what it returns
InlineStateMachine_end(w) ==
    LET m == w.ism IN
    IF w.exc # "none" THEN [w |-> w, ret |-> RetNone]
    ELSE IF m.state = ISM_NONE THEN
        IF m.unprocessed # <<>>
        THEN [w |-> Raise(w, "AssertionError"), ret |-> RetNone]
        ELSE [w |-> w, ret |-> RetNone]
    ELSE IF m.state = ISM_AT THEN ISM_end_at(w)
    ELSE IF m.state \in {ISM_INLINE_TAG, ISM_END_INLINE_TAG,
                         ISM_INLINE_CONTENT, ISM_INLINE_CONTENT_AT}
    THEN [w |-> _error(w, m.line_num, "Invalid state"), ret |-> RetNone]
    ELSE [w |-> Raise(w, "NotImplementedError"), ret |-> RetNone]

----------------------------------------------------------------------------
(* The checkers of the parser's tables.                                     *)

\* reduce(lambda x, y: x or image_id == y.id, imgs, False)
image_exist(image_id, imgs) ==
    \E i \in 1..Len(imgs) : image_id = imgs[i]
\* reduce(lambda x, y: x or image_id == '{}-{}'.format(source_id, y.id), ...)
image_id_wrong(image_id, source_id, imgs) ==
    \E i \in 1..Len(imgs) : image_id = source_id \o <<"-">> \o imgs[i]

\* Parser.__init__.__image_file_exist, with params[0] read as params[:1]
\* (no IndexError on an image block without parameters)
image_file_exist_NoIndexError(w, block) ==
    IF ~w.prj.bound THEN w
    ELSE IF block.name # n_image THEN Raise(w, "AssertionError")
    ELSE LET image_id == IF Len(block.params) = 0 THEN <<>>
                         ELSE block.params[1]
             source_id == splitext_head(w.par.source_name)
             imgs == IF w.par.source_name \in DOMAIN w.prj.images
                     THEN w.prj.images[w.par.source_name] ELSE <<>>
         IN IF imgs = <<>>
            THEN _error(w, block.line_num, "Image file does not exist")
            ELSE IF image_exist(image_id, imgs) THEN w
            ELSE IF image_id_wrong(image_id, source_id, imgs)
            THEN _warning(w, block.line_num, "includes prefix")
            ELSE _error(w, block.line_num, "Image file does not exist")

\* Parser.__init__.__image_file_exist (w.prj.images[name] lists the ids of
\* the ProjectImages of document name)
image_file_exist(w, block) ==
    IF ~w.prj.bound THEN w
    ELSE IF block.name # n_image THEN Raise(w, "AssertionError")
    ELSE IF Len(block.params) = 0 THEN Raise(w, "IndexError")
    ELSE LET image_id == block.params[1]
             source_id == splitext_head(w.par.source_name)
             imgs == IF w.par.source_name \in DOMAIN w.prj.images
                     THEN w.prj.images[w.par.source_name] ELSE <<>>
         IN IF imgs = <<>>
            THEN _error(w, block.line_num, "Image file does not exist")
            ELSE IF image_exist(image_id, imgs) THEN w
            ELSE IF image_id_wrong(image_id, source_id, imgs)
            THEN _warning(w, block.line_num, "includes prefix")
            ELSE _error(w, block.line_num, "Image file does not exist")

\* Parser._block_firstline_check
_block_firstline_check(w, block) ==
    IF w.exc # "none" THEN w
    ELSE IF block.name \notin allowed_blocks
    THEN _error(w, block.line_num, "Undefined block")
    ELSE IF block.name = n_image THEN image_file_exist(w, block)
    ELSE w

\* Parser.__init__.__check_block_default
check_block_default(w, block, n) ==
    IF Len(block.params) # n
    THEN _error(w, block.line_num, "Illegal number of params")
    ELSE w

\* Parser._block_lastline_check
_block_lastline_check(w, block) ==
    IF w.exc # "none" THEN w
    ELSE IF block.name \in allowed_blocks
    THEN check_block_default(w, block, num_params(block.name))
    ELSE w

----------------------------------------------------------------------------
(* BlockStateMachine.                                                       *)

BSM_NONE == "BSM_NONE"
BSM_PARSE_NAME == "BSM_PARSE_NAME"
BSM_IN_PARAM == "BSM_IN_PARAM"
BSM_IN_PARAM_BS == "BSM_IN_PARAM_BS"
BSM_END_PARAM == "BSM_END_PARAM"
BSM_IN_BLOCK == "BSM_IN_BLOCK"

\* BlockStateMachine.__init__ followed by reset() (the machine's own
\* all_inlines copy, which nothing reads, is left out)
BlockStateMachine ==
    [state |-> BSM_NONE, name |-> None, start_line_num |-> NoLine,
     params |-> <<>>, uni_lines |-> <<>>, unfinished_block |-> NoneObj,
     tmp_lst |-> <<>>]

\* BlockStateMachine.reset (_tmp_lst is not reset)
BSM_reset(w) ==
    Then(w, [w EXCEPT !.bsm.state = BSM_NONE, !.bsm.name = None,
                      !.bsm.start_line_num = NoLine, !.bsm.params = <<>>,
                      !.bsm.uni_lines = <<>>,
                      !.bsm.unfinished_block = NoneObj])

\* self.state = state
BSM_set_state(w, state) == Then(w, [w EXCEPT !.bsm.state = state])

\* self.name = name
BSM_set_name(w, name) == Then(w, [w EXCEPT !.bsm.name = name])

\* self._tmp_lst = []
BSM_clear_tmp(w) == Then(w, [w EXCEPT !.bsm.tmp_lst = <<>>])

\* _parse_block_start.__bsm_name_end
bsm_name_end(w, line_num) ==
    LET name == w.bsm.tmp_lst
    IN BSM_set_name(
         info_if(has_uppercase(name),
           error_if(~all_alnum(name),
             error_if(Len(name) = 0,
               BSM_clear_tmp(
                 raise_if(w.bsm.name # None, w, "AssertionError")),
               line_num, "Empty block name"),
             line_num, "Block name contains non-alnum"),
           line_num, "Block name contains uppercase"),
         name)

\* the three-way test on what parse_ch returned: an Inline is remembered, a
\* str joins _tmp_lst (_tmp_lst is kept joined: only its join and its
\* emptiness are read)
bsm_feed_result(r) ==
    IF r.ret.type = "None" THEN r.w
    ELSE IF r.ret.type = "Inline" THEN Parser_remember_inline(r.w, r.ret)
    ELSE Then(r.w, [r.w EXCEPT !.bsm.tmp_lst = @ \o r.ret.s])

\* ret = self._ism.parse_ch(ch, pos) and the test that follows it in
\* _parse_block_start
bsm_feed_ism(w, ch, pos) ==
    bsm_feed_result(InlineStateMachine_parse_ch(w, ch, pos))

\* the block is opened with a body: "{" after the name or after a parameter
bsm_open_body(w, line_num, params) ==
    LET new_block == Block(w.bsm.name, params, TRUE, <<>>, line_num)
    IN Then(w, _block_firstline_check(
                   [w EXCEPT !.bsm.state = BSM_IN_BLOCK,
                             !.bsm.unfinished_block = new_block],
                   new_block))

\* a BSM_IN_PARAM_BS step that forwards the backslash with the "]"
bsm_in_param_bs_KeepsBackslash(w, ch, pos) ==
    BSM_set_state(bsm_feed_ism(bsm_feed_ism(w, "\\", pos), ch, pos),
                  BSM_IN_PARAM)

\* the loop body of _parse_block_start in state BSM_IN_PARAM_BS
bsm_in_param_bs(w, ch, pos) ==
    BSM_set_state(
        bsm_feed_ism(IF ch = "]" THEN w ELSE bsm_feed_ism(w, "\\", pos),
                     ch, pos),
        BSM_IN_PARAM)

\* "]" with the inline machine idle: the parameter is complete
bsm_param_end(w) ==
    LET new_param == w.bsm.tmp_lst \o w.ism.unprocessed
    IN ISM_reset([w EXCEPT !.bsm.params = Append(@, new_param),
                           !.bsm.tmp_lst = <<>>,
                           !.bsm.state = BSM_END_PARAM])

\* a variant that lets "]" close the parameter whatever the inline machine
\* is doing
bsm_in_param_ClosesAlways(w, line_num, ch, pos) ==
    IF ch = "]" THEN bsm_param_end(w)
    ELSE IF ch = "\\" THEN [w EXCEPT !.bsm.state = BSM_IN_PARAM_BS]
    ELSE bsm_feed_ism(w, ch, pos)

\* the loop body of _parse_block_start in state BSM_IN_PARAM
bsm_in_param(w, line_num, ch, pos) ==
    IF ch = "]" THEN
        IF w.ism.state # ISM_NONE
        THEN bsm_feed_ism(_error(w, line_num, "Inline is not finished"),
                          ch, pos)
        ELSE bsm_param_end(w)
    ELSE IF ch = "\\" THEN [w EXCEPT !.bsm.state = BSM_IN_PARAM_BS]
    ELSE bsm_feed_ism(w, ch, pos)

\* the loop body of _parse_block_start: one character of the opening line
parse_block_start_ch(w, line_num, ch, pos) ==
    IF w.exc # "none" THEN w
    ELSE IF w.bsm.state = BSM_PARSE_NAME THEN
        IF ch = "[" THEN
            BSM_set_state(bsm_name_end(w, line_num), BSM_IN_PARAM)
        ELSE IF ch = "]" THEN
            BSM_set_state(_error(w, line_num, "Invalid param end"),
                          BSM_END_PARAM)
        ELSE IF ch = "{" THEN
            bsm_open_body(bsm_name_end(w, line_num), line_num, <<>>)
        ELSE [w EXCEPT !.bsm.tmp_lst = Append(@, ch)]
    ELSE IF w.bsm.state = BSM_IN_PARAM THEN bsm_in_param(w, line_num, ch, pos)
    ELSE IF w.bsm.state = BSM_IN_PARAM_BS THEN bsm_in_param_bs(w, ch, pos)
    ELSE IF w.bsm.state = BSM_END_PARAM THEN
        IF ch = "[" THEN ISM_reset([w EXCEPT !.bsm.state = BSM_IN_PARAM])
        ELSE IF ch = "{" THEN bsm_open_body(w, line_num, w.bsm.params)
        ELSE _error(w, line_num, "Junk")
    ELSE IF w.bsm.state = BSM_IN_BLOCK THEN _error(w, line_num, "Junk")
    ELSE w

\* _parse_block_start before its loop
parse_block_start_begin(w, line_num) ==
    Then(w, [w EXCEPT !.bsm.tmp_lst = <<>>,
                      !.ism = InlineStateMachine(line_num),
                      !.bsm.state = BSM_PARSE_NAME])

\* a block without body is complete: first-line check, reset, return it
bsm_oneline_block(w, line_num, params) ==
    LET new_block == Block(w.bsm.name, params, FALSE, <<>>, line_num)
    IN IF w.exc # "none" THEN [w |-> w, ret |-> RetNone]
       ELSE [w |-> BSM_reset(_block_firstline_check(w, new_block)),
             ret |-> new_block]

\* the end of _parse_block_start when the line did not end on a bare name:
\* a block without body if the line ended after a parameter
parse_block_start_tail(w, line_num) ==
    IF w.exc = "none" /\ w.bsm.state = BSM_END_PARAM
    THEN bsm_oneline_block(w, line_num, w.bsm.params)
    ELSE [w |-> w, ret |-> RetNone]

\* _parse_block_start after its loop: the world and the returned value
parse_block_start_end(w, line_num) ==
    IF w.exc # "none" THEN [w |-> w, ret |-> RetNone]
    ELSE IF w.ism.state = ISM_NONE /\ w.bsm.state = BSM_PARSE_NAME THEN
        bsm_oneline_block(bsm_name_end(w, line_num), line_num, <<>>)
    ELSE
        parse_block_start_tail(
            error_if(w.bsm.tmp_lst # <<>>,
                error_if(w.ism.state # ISM_NONE, w, line_num,
                         "Inline is not finished."),
                line_num, "Unprocessed data is remaining"),
            line_num)

RECURSIVE parse_block_start_loop(_, _, _, _)
\* for pos, ch in enumerate(content, pos_start): the loop of
\* _parse_block_start
parse_block_start_loop(w, line_num, content, pos) ==
    IF content = <<>> THEN w
    ELSE parse_block_start_loop(
             parse_block_start_ch(w, line_num, Head(content), pos),
             line_num, Tail(content), pos + 1)

\* BlockStateMachine._parse_block_start
_parse_block_start(w, line_num, content, pos_start) ==
    parse_block_start_end(
        parse_block_start_loop(parse_block_start_begin(w, line_num),
                               line_num, content, pos_start),
        line_num)

\* parse_line after _parse_block_start returned: the asserts on the state,
\* the reset after a block without body, the start line of a block with body
parse_line_begin_result(r, line_num) ==
    IF r.w.exc # "none" THEN [w |-> r.w, ret |-> RetNone]
    ELSE IF r.w.bsm.state \notin {BSM_NONE, BSM_IN_BLOCK}
    THEN [w |-> Raise(r.w, "AssertionError"), ret |-> RetNone]
    ELSE IF r.ret.type = "Block"
    THEN [w |-> BSM_reset(r.w), ret |-> r.ret]
    ELSE IF r.w.bsm.name = None
    THEN [w |-> Raise(r.w, "AssertionError"), ret |-> RetNone]
    ELSE [w |-> [r.w EXCEPT !.bsm.start_line_num = line_num],
          ret |-> RetNone]

\* parse_line on "//}" in a block, after the junk test: the body lines join
\* the unfinished block, the last-line check, the reset
parse_line_end_block(w) ==
    LET new_block == [w.bsm.unfinished_block
                         EXCEPT !.uni_lines = w.bsm.uni_lines]
    IN IF w.exc # "none" THEN [w |-> w, ret |-> RetNone]
       ELSE IF w.bsm.unfinished_block = NoneObj
       THEN [w |-> Raise(w, "AssertionError"), ret |-> RetNone]
       ELSE [w |-> BSM_reset(_block_lastline_check(w, new_block)),
             ret |-> new_block]

\* BlockStateMachine.parse_line: the world and the returned value (the value
\* is not read when the call raised)
BlockStateMachine_parse_line(w, line_num, uni_line) ==
    LET rstripped == rstrip(uni_line)
        m_end == startswith(rstripped, <<"/", "/", "}">>)
        m_begin == startswith(rstripped, <<"/", "/">>) /\ Len(rstripped) >= 3
    IN
    IF w.exc # "none" THEN [w |-> w, ret |-> RetNone]
    ELSE IF w.bsm.state \notin {BSM_NONE, BSM_IN_BLOCK}
    THEN [w |-> Raise(w, "AssertionError"), ret |-> RetNone]
    ELSE IF w.bsm.state = BSM_NONE THEN
        IF m_end
        THEN [w |-> _error(w, line_num, "Invalid block end"),
              ret |-> RetStr(uni_line)]
        ELSE IF m_begin THEN
            parse_line_begin_result(
                _parse_block_start(w, line_num, Drop(rstripped, 2), 2),
                line_num)
        ELSE [w |-> w, ret |-> RetStr(uni_line)]
    ELSE \* BSM_IN_BLOCK
        IF m_end THEN
            parse_line_end_block(
                error_if(Len(rstripped) > 3, w, line_num,
                         "Junk after block end."))
        ELSE [w |-> [w EXCEPT !.bsm.uni_lines = Append(@, uni_line)],
              ret |-> RetNone]

----------------------------------------------------------------------------
(* Parser.                                                                  *)

\* Parser.__init__: the reporter is built with the literal thresholds INFO
\* and CRITICAL (lines 992-994), not with the parser's own
Parser_reporter(ignore_threshold, abort_threshold) ==
    ProblemReporter(INFO, CRITICAL)

\* Parser.__init__
Parser(ignore_threshold, abort_threshold) ==
    [ignore_threshold |-> ignore_threshold,
     abort_threshold |-> abort_threshold,
     source_name |-> None, base_level |-> 0, chap_index |-> NoIndex,
     all_blocks |-> <<>>, current_inlines |-> <<>>, all_inlines |-> <<>>,
     bookmarks |-> <<>>, chap_to_bookmark |-> <<>>]

\* the groups of r_chap (parser.py lines 30-31) on a line that starts with
\* "=": ^(={1,5})([column]?)(\s*)(.*)$, every group greedy
r_chap_match(rstripped) == Len(rstripped) > 0 /\ rstripped[1] = "="
r_chap_groups(rstripped) ==
    LET run == RunLength(rstripped, {"="})
        level == IF run > 5 THEN 5 ELSE run
        rest1 == Drop(rstripped, level)
        column == IF Len(rest1) > 0
                     /\ rest1[1] \in {"c", "o", "l", "u", "m", "n"}
                  THEN <<rest1[1]>> ELSE <<>>
        rest2 == Drop(rest1, Len(column))
        nsp == RunLength(rest2, whitespace)
    IN [level |-> level, column |-> column, sp |-> Take(rest2, nsp),
        title |-> Drop(rest2, nsp)]

\* unicode.strip()
strip(s) == rstrip(Drop(s, RunLength(s, whitespace)))

\* r_manual_warn (line 34), ^#@(.+)\((.+)\)$ : the position of the "(" that
\* ends the greedy group type, 0 when the line does not match
r_manual_warn_paren(rstripped) ==
    LET n == Len(rstripped)
        cand == {i \in 4..(n - 2) : rstripped[i] = "("}
    IN IF n >= 6 /\ Take(rstripped, 2) = <<"#", "@">>
          /\ rstripped[n] = ")" /\ cand # {}
       THEN CHOOSE i \in cand : \A j \in cand : j <= i
       ELSE 0

\* Parser._append_bookmark
_append_bookmark(w, bookmark) ==
    LET key == <<bookmark.source_file_name, bookmark.source_chap_index>>
        old == w.par.chap_to_bookmark
        w1 == [w EXCEPT !.par.bookmarks = Append(@, bookmark)]
    IN IF Len(bookmark.source_file_name) > 0
          /\ bookmark.source_file_name # None
          /\ bookmark.source_chap_index # NoIndex
       THEN [w1 EXCEPT !.par.chap_to_bookmark =
                [k \in DOMAIN old \cup {key} |->
                    IF k = key THEN bookmark ELSE old[k]]]
       ELSE w1

\* a _handle_chap that does not advance chap_index
handle_chap_NoIncrement(w, line_num, uni_line) ==
    LET g == r_chap_groups(rstrip(uni_line))
        new_bookmark ==
            [level |-> w.par.base_level + g.level, title |-> strip(g.title),
             source_file_name |-> w.par.source_name,
             source_chap_index |-> IF g.level = 1 THEN w.par.chap_index
                                   ELSE NoIndex,
             sp |-> g.sp, is_column |-> g.column # <<>>]
    IN _append_bookmark(w, new_bookmark)

\* Parser._handle_chap on a line r_chap matches (it returns True)
_handle_chap(w, line_num, uni_line) ==
    LET g == r_chap_groups(rstrip(uni_line))
        new_bookmark ==
            [level |-> w.par.base_level + g.level, title |-> strip(g.title),
             source_file_name |-> w.par.source_name,
             source_chap_index |-> IF g.level = 1 THEN w.par.chap_index
                                   ELSE NoIndex,
             sp |-> g.sp, is_column |-> g.column # <<>>]
        w1 == IF g.level = 1
              THEN [w EXCEPT !.par.chap_index = @ + 1] ELSE w
    IN _append_bookmark(w1, new_bookmark)

\* what follows ret = self.bsm.parse_line(...): a Block joins all_blocks
parse_line_bsm_result(r) ==
    IF r.w.exc = "none" /\ r.ret.type = "Block"
    THEN [w |-> [r.w EXCEPT !.par.all_blocks = Append(@, r.ret)],
          ret |-> r.ret]
    ELSE r

\* ret = self.bsm.parse_line(line_num, uni_line); a Block joins all_blocks
parse_line_bsm(w, line_num, uni_line) ==
    parse_line_bsm_result(BlockStateMachine_parse_line(w, line_num, uni_line))

\* _parse_line while the block machine is in BSM_IN_BLOCK (lines 1085-1116)
parse_line_in_block(w, line_num, uni_line) ==
    LET rstripped == rstrip(uni_line)
        g == r_chap_groups(rstripped)
        comment == Take(rstripped, 3) = <<"#", "@", "#">>
        manual == /\ ~comment
                  /\ Take(rstripped, 2) = <<"#", "@">>
                  /\ r_manual_warn_paren(rstripped) # 0
        bookmark == /\ r_chap_match(rstripped)
                    /\ g.column = <<>>
                    /\ g.sp = <<>>
                    /\ ~startswith(g.title, <<"=">>)
    IN parse_line_bsm(
           warning_if(bookmark,
               warning_if(manual,
                   info_if(comment, w, line_num, "Re:VIEW comment in block"),
                   line_num, "Manual warning in block"),
               line_num, "Bookmark in block"),
           line_num, uni_line).w

\* what follows ret = ism.parse_ch(ch, pos) in _parse_line: an Inline is
\* remembered
parse_line_ism_result(r) ==
    IF r.ret.type = "Inline" THEN Parser_remember_inline(r.w, r.ret) ELSE r.w

RECURSIVE parse_line_ism_loop(_, _, _)
\* for pos, ch in enumerate(rstripped): ret = ism.parse_ch(ch, pos) ...
parse_line_ism_loop(w, chars, pos) ==
    IF chars = <<>> THEN w
    ELSE parse_line_ism_loop(
             parse_line_ism_result(
                 InlineStateMachine_parse_ch(w, Head(chars), pos)),
             Tail(chars), pos + 1)

\* the machine of _parse_line is a local: the block machine's own inline
\* machine is what w.ism holds before and after
ISM_restore(w, m) == [w EXCEPT !.ism = m]

\* the line is no block construct (lines 1166-1181): a fresh inline machine
\* reads it
parse_line_inlines(w, line_num, rstripped) ==
    ISM_restore(
        InlineStateMachine_end(
            parse_line_ism_loop(
                [w EXCEPT !.ism = InlineStateMachine(line_num)],
                rstripped, 0)).w,
        w.ism)

\* what follows ret = self.bsm.parse_line(...) outside a block: a Block or
\* None ends the call, a str goes to the inline machine
parse_line_outside_result(r, line_num, rstripped) ==
    IF r.w.exc # "none" \/ r.ret.type \in {"Block", "None"}
    THEN r.w
    ELSE parse_line_inlines(r.w, line_num, rstripped)

\* lines 1153-1181: the bookmark hint, the block machine, the inline machine
parse_line_rest(w, line_num, uni_line) ==
    parse_line_outside_result(
        parse_line_bsm(
            info_if(w.exc = "none" /\ w.par.bookmarks = <<>>, w, line_num,
                    "No bookmark found yet"),
            line_num, uni_line),
        line_num, rstrip(uni_line))

\* _parse_line outside a block body, the line being no heading (lines
\* 1122-1181)
parse_line_outside(w, line_num, uni_line) ==
    LET rstripped == rstrip(uni_line)
        paren == r_manual_warn_paren(rstripped)
        unordered == Take(rstripped, 1) = <<"*">>
        ordered == /\ ~unordered
                   /\ Len(rstripped) > 1
                   /\ rstripped[1] \in digits
                   /\ rstripped[2] = "."
    IN IF Take(rstripped, 3) = <<"#", "@", "#">> THEN w
       ELSE IF Take(rstripped, 2) = <<"#", "@">> THEN
           IF paren # 0 THEN
               IF SubSeq(rstripped, 3, paren - 1) # <<"w", "a", "r", "n">>
               THEN _error(w, line_num, "Unknown warn-like operation")
               ELSE _warning(w, line_num, "Manual warning")
           ELSE parse_line_rest(w, line_num, uni_line)
       ELSE parse_line_rest(
                warning_if(ordered,
                    warning_if(unordered, w, line_num,
                               "Unordered list operator"),
                    line_num, "Ordered list operator"),
                line_num, uni_line)

\* a _parse_line that reads a line of a block body as a line outside
Parser_parse_line_IgnoresBlock(w, line_num, line) ==
    IF w.exc # "none" THEN w
    ELSE IF r_chap_match(rstrip(utf_8_sig(line)))
    THEN _handle_chap(w, line_num, utf_8_sig(line))
    ELSE parse_line_outside(w, line_num, utf_8_sig(line))

\* Parser._parse_line
Parser_parse_line(w, line_num, line) ==
    LET uni_line == utf_8_sig(line)
        rstripped == rstrip(uni_line)
    IN IF w.exc # "none" THEN w
       ELSE IF w.bsm.state = BSM_IN_BLOCK
       THEN parse_line_in_block(w, line_num, uni_line)
       ELSE IF r_chap_match(rstripped)
       THEN _handle_chap(w, line_num, uni_line)
       ELSE parse_line_outside(w, line_num, uni_line)

\* Parser.__init__.__block_exist: whether a block of the list satisfies the
\* inline
block_exist(all_blocks, inline, block_names) ==
    \E i \in 1..Len(all_blocks) :
        /\ all_blocks[i].name \in block_names
        /\ Len(all_blocks[i].params) > 0
        /\ all_blocks[i].params[1] = inline.raw_content

\* Parser._inline_endfile_check (list and img have an end-of-file checker)
_inline_endfile_check(w, inline) ==
    LET names == IF inline.name = n_list THEN {n_list, n_listnum}
                 ELSE IF inline.name = n_img THEN {n_image}
                 ELSE {}
    IN IF w.exc = "none" /\ names # {}
          /\ ~block_exist(w.par.all_blocks, inline, names)
       THEN _error(w, inline.line_num, "Inline found but no block for it")
       ELSE w

\* self.all_inlines.append(inline)
all_inlines_append(w, inline) ==
    Then(w, [w EXCEPT !.par.all_inlines = Append(@, inline)])

RECURSIVE end_of_document_loop(_, _)
\* for inline in self._current_inlines: check it, append it to all_inlines
end_of_document_loop(w, inlines) ==
    IF inlines = <<>> \/ w.exc # "none" THEN w
    ELSE end_of_document_loop(
             all_inlines_append(_inline_endfile_check(w, Head(inlines)),
                                Head(inlines)),
             Tail(inlines))

\* self._current_inlines = []
current_inlines_clear(w) ==
    Then(w, [w EXCEPT !.par.current_inlines = <<>>])

\* Parser._end_of_document (no block has an end-of-file checker)
_end_of_document(w) ==
    current_inlines_clear(end_of_document_loop(w, w.par.current_inlines))

\* Parser._parse_file_inter before its loop (lines 1047-1053)
parse_file_begin(w, base_level, source_name) ==
    [w EXCEPT !.par.source_name = source_name,
              !.par.base_level = base_level,
              !.bsm = BlockStateMachine,
              !.par.chap_index = 0]

\* a _parse_file_inter that does not look at the block machine after its loop
parse_file_end_NoError(w) == _end_of_document(w)

\* a _parse_file_inter that looks at the block machine after the end-of-file
\* checks
parse_file_end_BlockCheckLast(w) ==
    error_if(w.bsm.state # BSM_NONE, _end_of_document(w), NoLine,
             "Block is not ended")

\* Parser._parse_file_inter after its loop (lines 1056-1061)
parse_file_end(w) ==
    _end_of_document(
        error_if(w.bsm.state # BSM_NONE, w, NoLine, "Block is not ended"))

RECURSIVE parse_file_loop(_, _, _)
\* for line_num, line in enumerate(f, 1): self._parse_line(line_num, line)
parse_file_loop(w, lines, line_num) ==
    IF lines = <<>> \/ w.exc # "none" THEN w
    ELSE parse_file_loop(Parser_parse_line(w, line_num, Head(lines)),
                         Tail(lines), line_num + 1)

\* Parser.parse_file on a file of the given lines
Parser_parse_file(w, base_level, source_name, lines) ==
    parse_file_end(
        parse_file_loop(parse_file_begin(w, base_level, source_name),
                        lines, 1))

----------------------------------------------------------------------------
(* ReVIEWProject: the catalog. files is the file system the project reads.  *)

\* r_re (project.py line 37), ^(.+.re)$ with its unescaped dot
r_re_match(filename) ==
    /\ Len(filename) >= 4
    /\ SubSeq(filename, Len(filename) - 1, Len(filename)) = <<"r", "e">>

\* A file system: source_dir is the absolute path of the source directory,
\* exists the absolute paths os.path.exists accepts, links those
\* os.path.islink accepts. Paths are sequences of characters.
FileSystem(source_dir, exists, links) ==
    [source_dir |-> source_dir, exists |-> exists, links |-> links]

RECURSIVE path_split(_, _, _)
\* path.split("/"): cur is the component being read, acc those read
path_split(path, cur, acc) ==
    IF path = <<>> THEN Append(acc, cur)
    ELSE IF Head(path) = "/"
    THEN path_split(Tail(path), <<>>, Append(acc, cur))
    ELSE path_split(Tail(path), Append(cur, Head(path)), acc)

RECURSIVE path_normalize(_, _)
\* os.path.normpath on the components of an absolute path: empty and "."
\* components are dropped, ".." drops the component before it
path_normalize(comps, acc) ==
    IF comps = <<>> THEN acc
    ELSE IF Head(comps) \in {<<>>, <<".">>}
    THEN path_normalize(Tail(comps), acc)
    ELSE IF Head(comps) = <<".", ".">>
    THEN path_normalize(Tail(comps), Take(acc, Len(acc) - 1))
    ELSE path_normalize(Tail(comps), Append(acc, Head(comps)))

RECURSIVE path_unsplit(_)
\* "/" + "/".join(comps)
path_unsplit(comps) ==
    IF comps = <<>> THEN <<>>
    ELSE <<"/">> \o Head(comps) \o path_unsplit(Tail(comps))

\* os.path.join(a, b)
os_path_join(a, b) ==
    IF b # <<>> /\ b[1] = "/" THEN b ELSE a \o <<"/">> \o b

\* os.path.abspath of an absolute path
os_path_abspath(path) ==
    IF path_normalize(path_split(path, <<>>, <<>>), <<>>) = <<>>
    THEN <<"/">>
    ELSE path_unsplit(path_normalize(path_split(path, <<>>, <<>>), <<>>))

\* sub in s, on strings
str_contains(sub, s) ==
    \E i \in 0..(Len(s) - Len(sub)) : SubSeq(s, i + 1, i + Len(sub)) = sub

\* _verify_filename once abs_path is computed: the path, or None
verify_abs_path(fs, abs_path) ==
    IF ~str_contains(fs.source_dir, abs_path) THEN None
    ELSE IF abs_path \notin fs.exists THEN None
    ELSE IF abs_path \in fs.links THEN None
    ELSE abs_path

\* _verify_filename
_verify_filename(fs, filename) ==
    verify_abs_path(fs, os_path_abspath(os_path_join(fs.source_dir,
                                                     filename)))

\* _verify_re_filename
_verify_re_filename(fs, filename) ==
    IF ~r_re_match(filename) THEN None ELSE _verify_filename(fs, filename)

\* _is_appropriate_file / _is_appropriate_re_file
_is_appropriate_file(files, filename) ==
    _verify_filename(files, filename) # None
_is_appropriate_re_file(files, filename) ==
    _verify_re_filename(files, filename) # None

\* parts and chaps: None, or a list
NoneList == [is_none |-> TRUE, list |-> <<>>]
ListOf(list) == [is_none |-> FALSE, list |-> list]

\* ReVIEWProject._reset: the fields of the catalog
ReVIEWProject(files) ==
    [bound |-> TRUE, images |-> <<>>, files |-> files, ready |-> FALSE,
     catalog_file |-> None, source_filenames |-> <<>>,
     predef_filenames |-> <<>>, postdef_filenames |-> <<>>,
     draft_filenames |-> {}, parts |-> NoneList, chaps |-> NoneList,
     image_dir |-> None, unmappable_images |-> <<>>]

RECURSIVE part_chaps_concat(_)
\* for filename in part_chaps: source_filenames.append(filename), part by part
part_chaps_concat(parts) ==
    IF parts = <<>> THEN <<>>
    ELSE Head(parts).chaps \o part_chaps_concat(Tail(parts))

\* what yaml.load gives for an element of CHAPS: "str" is a string s, "dict"
\* a mapping with the single entry title -> chaps whose title is a string,
\* "dict_int" a mapping with a single entry whose title is no string,
\* "dict_n" a mapping of len entries (len # 1)
yaml_is_dict(elem) == elem.type \in {"dict", "dict_int", "dict_n"}
\* len(part_content)
yaml_len(elem) ==
    IF elem.type = "str" THEN Len(elem.s)
    ELSE IF elem.type = "dict_n" THEN elem.len
    ELSE 1

RECURSIVE try_parse_parts(_, _)
\* for part_content in yaml_data['CHAPS']: how the loop over the parts ends,
\* "ok" when every element was taken, "rejected" on return False, or the
\* exception raised (a string of one character has no iteritems)
try_parse_parts(files, parts) ==
    IF parts = <<>> THEN "ok"
    ELSE IF yaml_len(Head(parts)) # 1 THEN "rejected"
    ELSE IF ~yaml_is_dict(Head(parts)) THEN "AttributeError"
    ELSE IF Head(parts).type = "dict_int" THEN "rejected"
    ELSE IF \E j \in 1..Len(Head(parts).chaps) :
               ~_is_appropriate_re_file(files, Head(parts).chaps[j])
    THEN "rejected"
    ELSE try_parse_parts(files, Tail(parts))

\* the assignments that end _try_parse_catalog_file on a CHAPS with parts
catalog_with_parts(prj, catalog_file, CHAPS, predef, postdef) ==
    [prj EXCEPT
        !.predef_filenames = predef,
        !.parts = ListOf(CHAPS),
        !.chaps = NoneList,
        !.postdef_filenames = postdef,
        !.source_filenames = predef \o part_chaps_concat(CHAPS) \o postdef,
        !.catalog_file = catalog_file]

\* a variant that has stored PREDEF when the loop over the parts gives up
try_parse_parts_result_StoresEarly(prj, catalog_file, CHAPS, predef, postdef, end) ==
    IF end = "ok"
    THEN [prj |-> catalog_with_parts(prj, catalog_file, CHAPS, predef,
                                     postdef),
          accepted |-> TRUE, exc |-> "none"]
    ELSE [prj |-> [prj EXCEPT !.predef_filenames = predef,
                              !.source_filenames = predef],
          accepted |-> FALSE,
          exc |-> IF end = "rejected" THEN "none" ELSE end]

\* the end of _try_parse_catalog_file on a CHAPS with parts, once the loop
\* over the parts is over
try_parse_parts_result(prj, catalog_file, CHAPS, predef, postdef, end) ==
    IF end = "ok"
    THEN [prj |-> catalog_with_parts(prj, catalog_file, CHAPS, predef,
                                     postdef),
          accepted |-> TRUE, exc |-> "none"]
    ELSE [prj |-> prj, accepted |-> FALSE,
          exc |-> IF end = "rejected" THEN "none" ELSE end]

\* ReVIEWProject._try_parse_catalog_file on the parsed YAML: accepted tells
\* whether it returned True, exc what it raised. yaml_data has no field
\* CHAPS when the file has no CHAPS or one that is no list (CHAPS_scalar);
\* CHAPS is a list of names, or of mappings (part title -> names)
_try_parse_catalog_file(prj, catalog_file, yaml_data) ==
    LET Ok(filename) == _is_appropriate_file(prj.files, filename)
        OkRe(filename) == _is_appropriate_re_file(prj.files, filename)
        predef == SelectSeq(yaml_data.PREDEF, Ok)
        postdef == SelectSeq(yaml_data.POSTDEF, Ok)
        with_parts == yaml_is_dict(yaml_data.CHAPS[1])
        names == [i \in 1..Len(yaml_data.CHAPS) |-> yaml_data.CHAPS[i].s]
        chaps == SelectSeq(names, OkRe)
    IN IF _verify_filename(prj.files, catalog_file) = None
          \/ "CHAPS" \notin DOMAIN yaml_data
          \/ Len(yaml_data.CHAPS) = 0
       THEN [prj |-> prj, accepted |-> FALSE, exc |-> "none"]
       ELSE IF with_parts
       THEN try_parse_parts_result(
                prj, catalog_file, yaml_data.CHAPS, predef, postdef,
                try_parse_parts(prj.files, yaml_data.CHAPS))
       ELSE IF \E i \in 1..Len(yaml_data.CHAPS) :
                  yaml_data.CHAPS[i].type # "str"
       THEN [prj |-> prj, accepted |-> FALSE, exc |-> "none"]
       ELSE [prj |-> [prj EXCEPT
                 !.predef_filenames = predef,
                 !.parts = NoneList,
                 !.chaps = ListOf(chaps),
                 !.postdef_filenames = postdef,
                 !.source_filenames = predef \o chaps \o postdef,
                 !.catalog_file = catalog_file],
             accepted |-> TRUE, exc |-> "none"]

\* the names of the catalog files
f_catalog_yml == <<"c", "a", "t", "a", "l", "o", "g", ".", "y", "m", "l">>
f_catalog_yaml == <<"c", "a", "t", "a", "l", "o", "g", ".", "y", "a", "m", "l">>
f_config_yaml == <<"c", "o", "n", "f", "i", "g", ".", "y", "a", "m", "l">>
f_CHAPS == <<"C", "H", "A", "P", "S">>
f_PREDEF == <<"P", "R", "E", "D", "E", "F">>
f_POSTDEF == <<"P", "O", "S", "T", "D", "E", "F">>
f_PART == <<"P", "A", "R", "T">>

\* for candidate in [...]: the new-format candidates, in order
new_catalog_candidates == <<f_catalog_yml, f_config_yaml>>

RECURSIVE recognize_new_loop(_, _, _)
\* the loop of _recognize_new_catalog_files: the first candidate that parses
\* wins; yamls maps a file name to what yaml.load gives for it
recognize_new_loop(prj, candidates, yamls) ==
    IF candidates = <<>>
    THEN [prj |-> prj, accepted |-> FALSE, exc |-> "none"]
    ELSE IF _try_parse_catalog_file(prj, Head(candidates),
                                    yamls[Head(candidates)]).accepted
            \/ _try_parse_catalog_file(prj, Head(candidates),
                                       yamls[Head(candidates)]).exc # "none"
    THEN _try_parse_catalog_file(prj, Head(candidates),
                                 yamls[Head(candidates)])
    ELSE recognize_new_loop(prj, Tail(candidates), yamls)

\* ReVIEWProject._recognize_new_catalog_files
_recognize_new_catalog_files(prj, yamls) ==
    recognize_new_loop(prj, new_catalog_candidates, yamls)

\* ReVIEWProject._detect_parts: one title per line of PART
_detect_parts(part_content) ==
    [i \in 1..Len(part_content) |-> rstrip(part_content[i])]

\* the locals of _recognize_legacy_catalog_files
LegacyLocals ==
    [predef_filenames |-> <<>>, source_filenames |-> <<>>,
     postdef_filenames |-> <<>>, parts |-> NoneList, chaps |-> NoneList,
     current_part |-> 0, part_chaps |-> <<>>, exc |-> "none"]

\* a part: the tuple (part_title, part_chaps)
PartTuple(title, chaps) == [title |-> title, chaps |-> chaps]

RECURSIVE legacy_read_names_Prepends(_, _, _, _)
\* a variant that puts each accepted name at the head of source_filenames
legacy_read_names_Prepends(fs, lines, st, list) ==
    IF lines = <<>> THEN st
    ELSE IF rstrip(Head(lines)) = <<>>
            \/ ~_is_appropriate_file(fs, rstrip(Head(lines)))
    THEN legacy_read_names_Prepends(fs, Tail(lines), st, list)
    ELSE legacy_read_names_Prepends(
             fs, Tail(lines),
             [st EXCEPT ![list] = Append(@, rstrip(Head(lines))),
                        !.source_filenames =
                            <<rstrip(Head(lines))>> \o @],
             list)

RECURSIVE legacy_read_names(_, _, _, _)
\* for line in file(path): the loops over PREDEF and POSTDEF; list names the
\* local the accepted names go to
legacy_read_names(fs, lines, st, list) ==
    IF lines = <<>> THEN st
    ELSE IF rstrip(Head(lines)) = <<>>
            \/ ~_is_appropriate_file(fs, rstrip(Head(lines)))
    THEN legacy_read_names(fs, Tail(lines), st, list)
    ELSE legacy_read_names(
             fs, Tail(lines),
             [st EXCEPT ![list] = Append(@, rstrip(Head(lines))),
                        !.source_filenames =
                            Append(@, rstrip(Head(lines)))],
             list)

RECURSIVE legacy_read_chaps(_, _, _)
\* for line in file(chaps_path): the loop over a CHAPS without parts
legacy_read_chaps(fs, lines, st) ==
    IF lines = <<>> THEN st
    ELSE IF rstrip(Head(lines)) = <<>>
            \/ ~_is_appropriate_re_file(fs, rstrip(Head(lines)))
    THEN legacy_read_chaps(fs, Tail(lines), st)
    ELSE legacy_read_chaps(
             fs, Tail(lines),
             [st EXCEPT !.chaps.list = Append(@, rstrip(Head(lines))),
                        !.source_filenames =
                            Append(@, rstrip(Head(lines)))])

RECURSIVE legacy_read_parts(_, _, _, _)
\* for line in file(chaps_path): the loop over a CHAPS with parts
legacy_read_parts(fs, lines, part_titles, st) ==
    IF lines = <<>> THEN st
    ELSE IF rstrip(Head(lines)) = <<>> THEN
        IF st.current_part < Len(part_titles)
        THEN legacy_read_parts(
                 fs, Tail(lines), part_titles,
                 [st EXCEPT !.parts.list =
                                Append(@, PartTuple(
                                              part_titles[st.current_part + 1],
                                              st.part_chaps)),
                            !.current_part = @ + 1,
                            !.part_chaps = <<>>])
        ELSE legacy_read_parts(fs, Tail(lines), part_titles, st)
    ELSE IF ~_is_appropriate_re_file(fs, rstrip(Head(lines)))
    THEN legacy_read_parts(fs, Tail(lines), part_titles, st)
    ELSE legacy_read_parts(
             fs, Tail(lines), part_titles,
             [st EXCEPT !.part_chaps = Append(@, rstrip(Head(lines))),
                        !.source_filenames =
                            Append(@, rstrip(Head(lines)))])

\* parts.append((part_titles[current_part], part_chaps)) after the loop
legacy_last_part(part_titles, st) ==
    IF st.current_part >= Len(part_titles)
    THEN [st EXCEPT !.exc = "IndexError"]
    ELSE [st EXCEPT !.parts.list =
                        Append(@, PartTuple(part_titles[st.current_part + 1],
                                            st.part_chaps))]

\* the PREDEF section of _recognize_legacy_catalog_files
legacy_predef(fs, contents, st) ==
    IF _is_appropriate_file(fs, f_PREDEF)
    THEN legacy_read_names(fs, contents[f_PREDEF], st, "predef_filenames")
    ELSE st

\* the titles of the parts; without a valid PART file part_titles is None,
\* which "if part_titles:" treats as the empty list
legacy_part_titles(fs, contents) ==
    IF _verify_filename(fs, f_PART) # None
    THEN _detect_parts(contents[f_PART])
    ELSE <<>>

\* a variant that fills chaps as well when PART gives titles
legacy_chaps_with_KeepsChaps(fs, contents, st, part_titles) ==
    IF part_titles # <<>>
    THEN legacy_last_part(
             part_titles,
             legacy_read_parts(fs, contents[f_CHAPS], part_titles,
                               [st EXCEPT !.parts = ListOf(<<>>),
                                          !.chaps = ListOf(<<>>)]))
    ELSE legacy_read_chaps(fs, contents[f_CHAPS],
                           [st EXCEPT !.parts = NoneList,
                                      !.chaps = ListOf(<<>>)])

\* the CHAPS and PART section, part_titles being known
legacy_chaps_with(fs, contents, st, part_titles) ==
    IF part_titles # <<>>
    THEN legacy_last_part(
             part_titles,
             legacy_read_parts(fs, contents[f_CHAPS], part_titles,
                               [st EXCEPT !.parts = ListOf(<<>>),
                                          !.chaps = NoneList]))
    ELSE legacy_read_chaps(fs, contents[f_CHAPS],
                           [st EXCEPT !.parts = NoneList,
                                      !.chaps = ListOf(<<>>)])

\* the CHAPS and PART section of _recognize_legacy_catalog_files
legacy_chaps(fs, contents, st) ==
    legacy_chaps_with(fs, contents, st, legacy_part_titles(fs, contents))

\* the POSTDEF section of _recognize_legacy_catalog_files
legacy_postdef(fs, contents, st) ==
    IF st.exc = "none" /\ _is_appropriate_file(fs, f_POSTDEF)
    THEN legacy_read_names(fs, contents[f_POSTDEF], st,
                           "postdef_filenames")
    ELSE st

\* the assignments that end _recognize_legacy_catalog_files
legacy_result(prj, st) ==
    IF st.exc # "none"
    THEN [prj |-> prj, accepted |-> FALSE, exc |-> st.exc]
    ELSE [prj |-> [prj EXCEPT !.predef_filenames = st.predef_filenames,
                              !.parts = st.parts,
                              !.chaps = st.chaps,
                              !.postdef_filenames = st.postdef_filenames,
                              !.source_filenames = st.source_filenames,
                              !.catalog_file = None],
          accepted |-> TRUE, exc |-> "none"]

\* ReVIEWProject._recognize_legacy_catalog_files; contents maps a file name
\* to its lines
_recognize_legacy_catalog_files(prj, contents) ==
    IF _verify_filename(prj.files, f_CHAPS) = None
    THEN [prj |-> prj, accepted |-> FALSE, exc |-> "none"]
    ELSE legacy_result(
             prj,
             legacy_postdef(
                 prj.files, contents,
                 legacy_chaps(prj.files, contents,
                              legacy_predef(prj.files, contents,
                                            LegacyLocals))))

\* os.listdir(self.source_dir): the names directly under the directory
os_listdir(fs) ==
    {Drop(path, Len(fs.source_dir) + 1) :
        path \in {q \in fs.exists :
                     /\ startswith(q, fs.source_dir \o <<"/">>)
                     /\ ~str_contains(<<"/">>,
                                      Drop(q, Len(fs.source_dir) + 1))}}

\* x.endswith('.re')
endswith_re(x) ==
    Len(x) >= 3 /\ Drop(x, Len(x) - 3) = <<".", "r", "e">>

\* ReVIEWProject._recognize_draft_files; os.listdir gives the names in no
\* particular order, and draft_filenames is kept as the set of its elements
_recognize_draft_files(prj) ==
    [prj EXCEPT !.draft_filenames =
        @ \cup {re_file \in os_listdir(prj.files) :
                   /\ endswith_re(re_file)
                   /\ \A i \in 1..Len(prj.source_filenames) :
                         prj.source_filenames[i] # re_file}]

\* The characters of the file names of the model, in code point order
CodePoints ==
    <<"-", ".", "a", "b", "c", "e", "g", "n", "p", "r", "x", "y">>
ord(ch) == CHOOSE i \in 1..Len(CodePoints) : CodePoints[i] = ch

RECURSIVE str_lt(_, _)
\* a < b on strings
str_lt(a, b) ==
    IF b = <<>> THEN FALSE
    ELSE IF a = <<>> THEN TRUE
    ELSE IF Head(a) = Head(b) THEN str_lt(Tail(a), Tail(b))
    ELSE ord(Head(a)) < ord(Head(b))

RECURSIVE sorted_insert(_, _)
sorted_insert(x, list) ==
    IF list = <<>> THEN <<x>>
    ELSE IF str_lt(Head(list), x)
    THEN <<Head(list)>> \o sorted_insert(x, Tail(list))
    ELSE <<x>> \o list

RECURSIVE sorted(_)
\* sorted(list), on a list of strings
sorted(list) ==
    IF list = <<>> THEN <<>>
    ELSE sorted_insert(Head(list), sorted(Tail(list)))

RECURSIVE set_list(_)
\* the elements of a set as a list (in an order sorted() makes irrelevant)
set_list(set) ==
    IF set = {} THEN <<>>
    ELSE <<CHOOSE x \in set : TRUE>>
         \o set_list(set \ {CHOOSE x \in set : TRUE})

\* ReVIEWProject.all_filenames
all_filenames(prj) == prj.source_filenames \o set_list(prj.draft_filenames)

\* The image directory: isdir tells whether it is a directory, files names
\* its plain files, and dirs maps each of its subdirectories to what
\* os.listdir gives for it (its entries, in the order the system gives them)
ImageDir(isdir, files, dirs) ==
    [isdir |-> isdir, files |-> files, dirs |-> dirs]

s_images == <<"i", "m", "a", "g", "e", "s">>

\* ProjectImage.__init__: ok tells whether its assertions hold
ProjectImage(rel_path, parent_filename, image_dir) ==
    LET parent_id == splitext_head(parent_filename)
        parts == path_split(rel_path, <<>>, <<>>)
        head == splitext_head(parts[Len(parts)])
        id == IF Len(parts) = 3 THEN head ELSE Drop(head, Len(parent_id) + 1)
    IN [ok |-> /\ Len(parts) \in {2, 3}
               /\ parts[1] = image_dir
               /\ Len(parts) = 3 => parts[2] = parent_id
               /\ Len(parts) = 2 => startswith(head, parent_id \o <<"-">>)
               /\ id # <<>>,
        rel_path |-> rel_path, parent_filename |-> parent_filename,
        id |-> id]

\* images.setdefault(key, []) and images.setdefault(key, []).append(x), on a
\* dict kept as a function of its keys
dict_setdefault(dict, key) ==
    [k \in DOMAIN dict \cup {key} |->
        IF k \in DOMAIN dict THEN dict[k] ELSE <<>>]
dict_append(dict, key, x) ==
    [k \in DOMAIN dict \cup {key} |->
        IF k = key THEN (IF k \in DOMAIN dict THEN dict[k] ELSE <<>>) \o <<x>>
        ELSE dict[k]]

\* self.images.setdefault(parent_filename, []); i_parents += 1
images_setdefault(st, parent_filename) ==
    [st EXCEPT !.images = dict_setdefault(@, parent_filename),
               !.i_parents = @ + 1]

\* pi = ProjectImage(...); lst = self.images.setdefault(...); lst.append(pi)
images_append(st, pi) ==
    IF ~pi.ok THEN [st EXCEPT !.exc = "AssertionError"]
    ELSE [st EXCEPT !.images = dict_append(@, pi.parent_filename, pi)]

\* self.unmappable_images.append(image_filename); i_images += 1
unmappable_append(st, image_filename) ==
    [st EXCEPT !.unmappable_images = Append(@, image_filename),
               !.i_images = @ + 1]

RECURSIVE images_append_dir(_, _, _, _, _)
\* for image_filename2 in os.listdir(abs_path)
images_append_dir(st, parent_filename, image_dir, rel_path, names) ==
    IF names = <<>> \/ st.exc # "none" THEN st
    ELSE images_append_dir(
             images_append(st, ProjectImage(rel_path \o <<"/">> \o Head(names),
                                            parent_filename, image_dir)),
             parent_filename, image_dir, rel_path, Tail(names))

\* i_images += 1 and i_parents += 1, unless the loop above raised
images_dir_done(st) ==
    IF st.exc # "none" THEN st
    ELSE [st EXCEPT !.i_images = @ + 1, !.i_parents = @ + 1]
images_file_done(st) ==
    IF st.exc # "none" THEN st ELSE [st EXCEPT !.i_images = @ + 1]

\* the body of the loop when the entry is a directory
recognize_image_isdir(st, parent_filename, parent_id, image_filename, image_dir, names) ==
    IF parent_id = image_filename
    THEN images_dir_done(
             images_append_dir(st, parent_filename, image_dir,
                               image_dir \o <<"/">> \o image_filename, names))
    ELSE IF str_lt(parent_id, image_filename)
    THEN images_setdefault(st, parent_filename)
    ELSE unmappable_append(st, image_filename)

\* the body of the loop when the entry is not a directory
recognize_image_file(st, parent_filename, parent_id, image_filename, head, image_dir) ==
    IF startswith(head, parent_id \o <<"-">>)
    THEN images_file_done(
             images_append(st, ProjectImage(
                                   image_dir \o <<"/">> \o image_filename,
                                   parent_filename, image_dir)))
    ELSE IF str_lt(parent_id, head)
    THEN images_setdefault(st, parent_filename)
    ELSE unmappable_append(st, image_filename)

\* the body of the loop
recognize_image_entry(st, parent_filename, image_filename, image_dir, dir) ==
    IF image_filename \in DOMAIN dir.dirs
    THEN recognize_image_isdir(st, parent_filename,
                               splitext_head(parent_filename), image_filename,
                               image_dir, dir.dirs[image_filename])
    ELSE recognize_image_file(st, parent_filename,
                              splitext_head(parent_filename), image_filename,
                              splitext_head(image_filename), image_dir)

RECURSIVE recognize_image_loop(_, _, _, _, _)
\* while (i_parents < len(parent_filenames)
\*        and i_images < len(image_filenames))
recognize_image_loop(st, parent_filenames, image_filenames, image_dir, dir) ==
    IF \/ st.exc # "none"
       \/ ~(/\ st.i_parents < Len(parent_filenames)
            /\ st.i_images < Len(image_filenames))
    THEN st
    ELSE recognize_image_loop(
             recognize_image_entry(st, parent_filenames[st.i_parents + 1],
                                   image_filenames[st.i_images + 1],
                                   image_dir, dir),
             parent_filenames, image_filenames, image_dir, dir)

\* what the loop leaves in the project
recognize_image_result(prj, st) ==
    [prj |-> [prj EXCEPT !.images = st.images,
                         !.unmappable_images = st.unmappable_images],
     exc |-> st.exc]

\* ReVIEWProject._recognize_image_files
_recognize_image_files(prj, dir) ==
    IF ~dir.isdir THEN [prj |-> prj, exc |-> "none"]
    ELSE recognize_image_result(prj,
             recognize_image_loop(
                 [images |-> prj.images,
                  unmappable_images |-> prj.unmappable_images,
                  exc |-> "none", i_parents |-> 0, i_images |-> 0],
                 sorted(all_filenames(prj)),
                 sorted(set_list(dir.files \cup DOMAIN dir.dirs)),
                 prj.image_dir, dir))

\* ReVIEWProject.init from the image directory on (image_dir is the default
\* 'images')
init_images(prj, dir) ==
    _recognize_image_files([prj EXCEPT !.image_dir = s_images,
                                       !.images = <<>>], dir)

\* ReVIEWProject.RELATED_FILES
f_config_yml == <<"c", "o", "n", "f", "i", "g", ".", "y", "m", "l">>
RELATED_FILES ==
    {f_config_yml, f_config_yaml, f_catalog_yml, f_catalog_yaml,
     f_CHAPS, f_PREDEF, f_POSTDEF, f_PART}

\* A directory tree maps the path of each directory (the names from the
\* base down) to the names of its files. What a search returns: a directory,
\* or None
FoundDir(dir) == [found |-> TRUE, dir |-> dir]
NoDir == [found |-> FALSE, dir |-> <<>>]

\* the directories directly under dir
tree_subdirs(tree, dir) ==
    {sub \in DOMAIN tree :
        Len(sub) = Len(dir) + 1 /\ Take(sub, Len(dir)) = dir}

\* os.listdir(base_dir): files and directories
tree_listdir(tree, dir) ==
    tree[dir] \cup {sub[Len(sub)] : sub \in tree_subdirs(tree, dir)}

\* the two tests on a listing
has_related_files(files) == files \cap RELATED_FILES # {}
has_re_files(files) == \E f \in files : endswith_re(f)
look_for_test(related, files) ==
    IF related THEN has_related_files(files) ELSE has_re_files(files)

RECURSIVE _look_for_base(_, _, _, _)
\* ReVIEWProject._look_for_base: the values it may return. os.listdir gives
\* the entries in no particular order, and the first directory whose search
\* succeeds wins: any directory whose search can succeed may be that one
_look_for_base(tree, base_dir, depth, related) ==
    IF look_for_test(related, tree_listdir(tree, base_dir))
    THEN {FoundDir(base_dir)}
    ELSE IF depth = 0 THEN {NoDir}
    ELSE IF (UNION {_look_for_base(tree, sub,
                                   IF depth > 0 THEN depth - 1 ELSE depth,
                                   related) :
                       sub \in tree_subdirs(tree, base_dir)}) \ {NoDir} = {}
    THEN {NoDir}
    ELSE (UNION {_look_for_base(tree, sub,
                                IF depth > 0 THEN depth - 1 ELSE depth,
                                related) :
                    sub \in tree_subdirs(tree, base_dir)}) \ {NoDir}

\* _look_for_related_files(...) or _look_for_re_files(...)
guess_source_dir_or(related_results, tree, base_dir, depth) ==
    (related_results \ {NoDir})
    \cup (IF NoDir \in related_results
          THEN _look_for_base(tree, base_dir, depth, FALSE) ELSE {})

\* ReVIEWProject.guess_source_dir: the values it may return
guess_source_dir(tree, base_dir, depth) ==
    guess_source_dir_or(_look_for_base(tree, base_dir, depth, TRUE),
                        tree, base_dir, depth)

----------------------------------------------------------------------------
(* Idle values of the variables a specification does not use.               *)

NoParser == [source_name |-> None]
NoBsm == [state |-> "None"]
NoIsm == [state |-> "None"]
NoProject == [bound |-> FALSE, images |-> <<>>, source_filenames |-> <<>>]
NoInput == [n |-> 0]
NoLast == [op |-> "None"]

\* the world of the current state, and the state a world is stored in
World ==
    [rep |-> reporter, par |-> parser, bsm |-> bsm, ism |-> ism,
     prj |-> project, exc |-> exc]
Store(w) ==
    /\ reporter' = w.rep
    /\ parser' = w.par
    /\ bsm' = w.bsm
    /\ ism' = w.ism
    /\ exc' = w.exc

----------------------------------------------------------------------------
(* SpecReporter: two reporters with the same abort threshold receive the    *)
(* same sequence of report() calls.                                         *)

InitReporter ==
    /\ \E ig \in Levels, ig2 \in Levels, ab \in Levels :
          /\ reporter = ProblemReporter(ig, ab)
          /\ reporter2 = ProblemReporter(ig2, ab)
    /\ parser = NoParser
    /\ bsm = NoBsm
    /\ ism = NoIsm
    /\ project = NoProject
    /\ exc = "none"
    /\ pc = "reporter"
    /\ input = NoInput
    /\ last = NoLast

\* one report() call, made on both reporters; the n-th call carries line n
Report ==
    /\ pc = "reporter"
    /\ input.n < MaxReports
    /\ \E error_level \in Levels :
          LET line_num == input.n + 1
              r1 == ProblemReporter_report(reporter, error_level, "fake.re",
                                           line_num, "desc")
              r2 == ProblemReporter_report(reporter2, error_level, "fake.re",
                                           line_num, "desc")
          IN /\ reporter' = r1.rep
             /\ reporter2' = r2.rep
             /\ exc' = IF r1.out = "raise" THEN "ParseProblem" ELSE "none"
             /\ last' = [op |-> "report", error_level |-> error_level,
                         line_num |-> line_num,
                         out |-> r1.out, problem |-> r1.problem,
                         out2 |-> r2.out]
             /\ input' = [n |-> input.n + 1]
    /\ UNCHANGED <<parser, bsm, ism, project, pc>>

NextReporter == Report

SpecReporter == InitReporter /\ [][NextReporter]_vars

----------------------------------------------------------------------------
(* C1: report() has exactly three outcomes, decided by the two thresholds:  *)
(* below ignore_threshold it returns None and the retained list is          *)
(* unchanged; otherwise at or above abort_threshold it raises the problem   *)
(* and the list is unchanged; otherwise it appends exactly that problem to  *)
(* the end of the list and returns it.                                      *)
C1_ReportThreeOutcomes ==
    [][ (input'.n = input.n + 1) =>
          LET lvl == last'.error_level
              p == ParseProblem(lvl, "fake.re", last'.line_num, "desc")
          IN IF lvl < reporter.ignore_threshold
             THEN /\ last'.out = "none"
                  /\ last'.problem = NoneObj
                  /\ reporter'.problems = reporter.problems
             ELSE IF lvl >= reporter.abort_threshold
             THEN /\ last'.out = "raise"
                  /\ last'.problem = p
                  /\ reporter'.problems = reporter.problems
             ELSE /\ last'.out = "return"
                  /\ last'.problem = p
                  /\ reporter'.problems = Append(reporter.problems, p) ]_vars

\* all three outcomes have happened in one run: a problem is retained, and
\* the last call was ignored / raised
C1_Witness ==
    /\ Len(reporter.problems) >= 1
    /\ last.op = "report"
    /\ last.out = "raise"
    /\ last.error_level >= reporter.abort_threshold
    /\ reporter.ignore_threshold > DEBUG

(* C3: for a fixed sequence of report() calls and a fixed abort threshold,  *)
(* the run with the lower ignore threshold retains every problem the run    *)
(* with the higher one retains, in the same order, and every problem it     *)
(* retains in addition has a severity strictly below the higher threshold.  *)
C3_LowerIgnoreOnlyAdds ==
    (reporter2.ignore_threshold <= reporter.ignore_threshold) =>
        LET AtLeastHigh(p) == p.level >= reporter.ignore_threshold
            Extra(p) == \A i \in 1..Len(reporter.problems) :
                            reporter.problems[i] # p
        IN /\ SelectSeq(reporter2.problems, AtLeastHigh) = reporter.problems
           /\ \A i \in 1..Len(reporter2.problems) :
                 Extra(reporter2.problems[i]) =>
                    reporter2.problems[i].level < reporter.ignore_threshold

\* the lower run retains strictly more than the higher run, which retains
\* something too
C3_Witness ==
    /\ reporter2.ignore_threshold < reporter.ignore_threshold
    /\ Len(reporter.problems) >= 1
    /\ Len(reporter2.problems) > Len(reporter.problems)

----------------------------------------------------------------------------
(* SpecParser: one Parser, bound to a project, on which parse_file() is     *)
(* called for a sequence of documents; the lines of each document are read  *)
(* one by one. A call that raises ends the run (main.py lines 71-82).       *)

a_re == <<"a", ".", "r", "e">>
b_re == <<"b", ".", "r", "e">>
DocNames == {a_re, b_re}

\* the lines documents are made of
L_chap == <<"=", " ", "T">>
L_sect == <<"=", "=", " ", "S", "\n">>
L_text == <<"x", " ", "\n">>
L_bom == <<BOM, "x", "\n">>
L_lead == <<"/", "/", "l", "e", "a", "d", "{", "\n">>
L_close == <<"/", "/", "}", "\n">>
L_image == <<"/", "/", "i", "m", "a", "g", "e", "[", "a", "]", "[", "b", "]">>
L_img == <<"@", "<", "i", "m", "g", ">", "{", "a", "}", "\n">>
Lines == {L_chap, L_sect, L_text, L_bom, L_lead, L_close, L_image, L_img}

\* the project of the parser runs: document a.re has one image, of id "a"
ParserProject ==
    [bound |-> TRUE, images |-> (a_re :> << <<"a">> >>),
     source_filenames |-> <<>>]

InitParser ==
    /\ \E ab \in {ERROR, CRITICAL} :
          /\ parser = Parser(INFO, ab)
          /\ reporter = Parser_reporter(INFO, ab)
    /\ reporter2 = ProblemReporter(INFO, CRITICAL)
    /\ bsm = NoBsm
    /\ ism = NoIsm
    /\ project = ParserProject
    /\ exc = "none"
    /\ pc = "idle"
    /\ input = [ndocs |-> 0, total |-> 0, lines |-> <<>>]
    /\ last = NoLast

\* what the lists held before the call (history)
Marks(op) ==
    [op |-> op,
     blocks |-> Len(parser.all_blocks),
     inlines |-> Len(parser.all_inlines),
     bookmarks |-> Len(parser.bookmarks),
     problems |-> Len(reporter.problems)]

\* the call is over: its world is stored, its exception ends the run
AfterCall(w, next_pc) ==
    /\ Store(w)
    /\ pc' = IF w.exc = "none" THEN next_pc ELSE "raised"

\* parse_file(path, base_level, source_name) is entered
StartDoc ==
    /\ pc = "idle"
    /\ input.ndocs < MaxDocs
    /\ \E source_name \in DocNames :
          AfterCall(parse_file_begin(World, 0, source_name), "doc")
    /\ input' = [input EXCEPT !.ndocs = @ + 1, !.lines = <<>>]
    /\ last' = Marks("begin")
    /\ UNCHANGED <<reporter2, project>>

\* one iteration of the loop of _parse_file_inter: self._parse_line(...)
ParseLine ==
    /\ pc = "doc"
    /\ input.total < MaxLines
    /\ \E line \in Lines :
          /\ AfterCall(Parser_parse_line(World, Len(input.lines) + 1, line),
                       "doc")
          /\ input' = [input EXCEPT !.total = @ + 1,
                                    !.lines = Append(@, line)]
    /\ last' = [last EXCEPT !.op = "line"]
    /\ UNCHANGED <<reporter2, project>>

\* the input is exhausted: the rest of _parse_file_inter
EndDoc ==
    /\ pc = "doc"
    /\ AfterCall(parse_file_end(World), "idle")
    /\ last' = [last EXCEPT !.op = "end"]
    /\ UNCHANGED <<reporter2, project, input>>

NextParser == StartDoc \/ ParseLine \/ EndDoc

SpecParser == InitParser /\ [][NextParser]_vars

\* the blocks, inlines and bookmarks recorded since the current document was
\* entered, and whether a document has been entered
DocBlocks ==
    SubSeq(parser.all_blocks, last.blocks + 1, Len(parser.all_blocks))
DocInlines ==
    SubSeq(parser.all_inlines, last.inlines + 1, Len(parser.all_inlines))
DocBookmarks ==
    SubSeq(parser.bookmarks, last.bookmarks + 1, Len(parser.bookmarks))
InDocument == pc \in {"doc", "idle", "raised"} /\ last.op # "None"

\* how many retained problems carry the description
CountDesc(problems, desc) ==
    Cardinality({i \in 1..Len(problems) : problems[i].desc = desc})

----------------------------------------------------------------------------
(* C2: for a Parser constructed with abort_threshold T, a problem of         *)
(* severity >= T aborts the parsing of the document and is not added to the *)
(* retained list: no retained problem has a severity of T or more.          *)
C2_AbortAtParserThreshold ==
    InDocument =>
        \A i \in 1..Len(reporter.problems) :
            reporter.problems[i].level < parser.abort_threshold

(* C4: after the end-of-file processing of a document, every inline named   *)
(* img recorded in it has an image block with that first parameter parsed   *)
(* in the same document, or an Error with the inline's line number is       *)
(* retained.                                                                *)
C4_ImgHasImageBlockInDocument ==
    (pc = "idle" /\ last.op = "end") =>
        \A i \in 1..Len(DocInlines) :
            LET inline == DocInlines[i] IN
            inline.name = n_img =>
                \/ \E j \in 1..Len(DocBlocks) :
                      /\ DocBlocks[j].name = n_image
                      /\ Len(DocBlocks[j].params) > 0
                      /\ DocBlocks[j].params[1] = inline.raw_content
                \/ \E k \in 1..Len(reporter.problems) :
                      /\ reporter.problems[k].level = ERROR
                      /\ reporter.problems[k].line_num = inline.line_num
                      /\ reporter.problems[k].source_name = parser.source_name

(* C6: for every block with a body in the block list, body_lines is exactly *)
(* the input lines strictly between the opening line and the closing "//}"  *)
(* line, in order and unmodified.                                           *)
C6_BodyLinesVerbatim ==
    InDocument =>
        \A i \in 1..Len(DocBlocks) :
            LET b == DocBlocks[i]
                closing == {j \in (b.line_num + 1)..Len(input.lines) :
                               startswith(input.lines[j], <<"/", "/", "}">>)}
            IN b.has_content =>
                  /\ closing # {}
                  /\ b.uni_lines =
                        SubSeq(input.lines, b.line_num + 1,
                               (CHOOSE j \in closing :
                                    \A k \in closing : j <= k) - 1)

(* C7: a block with a body joins the block list only on a line starting     *)
(* with "//}"; when the document ends inside a body, exactly one "Block is  *)
(* not ended" Error is reported, the block list is left as it is, and the   *)
(* next document starts with a fresh block machine, so the block never      *)
(* joins the list; a block of the list without body has no body lines.      *)
C7_BodyBlockOnlyOnClose ==
    [][ /\ (pc = "doc") =>
            /\ Len(parser'.all_blocks) >= Len(parser.all_blocks)
            /\ SubSeq(parser'.all_blocks, 1, Len(parser.all_blocks))
                  = parser.all_blocks
            /\ \A i \in (Len(parser.all_blocks) + 1)..Len(parser'.all_blocks) :
                  parser'.all_blocks[i].has_content =>
                      /\ last'.op = "line"
                      /\ startswith(input'.lines[Len(input'.lines)],
                                    <<"/", "/", "}">>)
            /\ (last'.op = "end") =>
                  /\ parser'.all_blocks = parser.all_blocks
                  /\ CountDesc(reporter'.problems, "Block is not ended")
                        = CountDesc(reporter.problems, "Block is not ended")
                          + (IF bsm.state # BSM_NONE THEN 1 ELSE 0)
                  /\ (bsm.state # BSM_NONE) =>
                        /\ Len(reporter'.problems) > Len(reporter.problems)
                        /\ reporter'.problems[Len(reporter.problems) + 1]
                              = ParseProblem(ERROR, parser.source_name,
                                             NoLine, "Block is not ended")
            /\ \A i \in 1..Len(parser'.all_blocks) :
                  ~parser'.all_blocks[i].has_content =>
                      parser'.all_blocks[i].uni_lines = <<>>
        /\ (pc = "idle") =>
            /\ bsm'.state = BSM_NONE
            /\ bsm'.unfinished_block = NoneObj
            /\ parser'.all_blocks = parser.all_blocks ]_vars

\* a document ended inside a body after an earlier block with a body was
\* closed and one without body was read
C7_Witness ==
    /\ pc = "idle"
    /\ last.op = "end"
    /\ bsm.state = BSM_IN_BLOCK
    /\ CountDesc(reporter.problems, "Block is not ended") = 1
    /\ \E i \in 1..Len(parser.all_blocks) : parser.all_blocks[i].has_content
    /\ \E i \in 1..Len(parser.all_blocks) : ~parser.all_blocks[i].has_content

(* C8: within one document the chapter bookmarks (level-1 headings) carry   *)
(* the chapter indexes 0, 1, 2, ... in order of appearance, and the         *)
(* bookmarks of deeper headings carry none and do not advance the index.    *)
C8_ChapterIndexSequence ==
    InDocument =>
        LET IsChapter(b) == b.level = parser.base_level + 1
            chapters == SelectSeq(DocBookmarks, IsChapter)
        IN /\ \A i \in 1..Len(chapters) :
                 chapters[i].source_chap_index = i - 1
           /\ \A i \in 1..Len(DocBookmarks) :
                 ~IsChapter(DocBookmarks[i]) =>
                     DocBookmarks[i].source_chap_index = NoIndex
           /\ parser.chap_index = Len(chapters)

\* two chapters with a section between them in the second document parsed
C8_Witness ==
    /\ InDocument
    /\ input.ndocs = 2
    /\ Len(DocBookmarks) = 3
    /\ DocBookmarks[1].source_chap_index = 0
    /\ DocBookmarks[2].source_chap_index = NoIndex
    /\ DocBookmarks[3].source_chap_index = 1

\* the problems retained since the current document was entered
DocProblems ==
    SubSeq(reporter.problems, last.problems + 1, Len(reporter.problems))

(* C13: after a document has been parsed, the retained problems of the      *)
(* document that carry a line number appear in non-decreasing line-number   *)
(* order.                                                                   *)
C13_ProblemsInLineOrder ==
    (pc = "idle" /\ last.op = "end") =>
        \A i \in 1..Len(DocProblems) : \A j \in i..Len(DocProblems) :
            (DocProblems[i].line_num # NoLine
             /\ DocProblems[j].line_num # NoLine)
            => DocProblems[i].line_num <= DocProblems[j].line_num

----------------------------------------------------------------------------
(* SpecBlockStart: the loop of _parse_block_start on line 1 of document     *)
(* a.re, one character per step. The run starts after the loop has read one *)
(* of the openings below; the characters that follow are free.              *)

MaxFree == 3

p_image == n_image
p_footnote == n_footnote \o <<"[">>
BlockPrefixes ==
    {p_image, p_image \o <<"[">>, p_image \o <<"[", "a">>,
     p_image \o <<"[", "a", "-", "a">>, p_image \o <<"[", "b">>,
     n_lead,
     p_footnote, p_footnote \o <<"@">>, p_footnote \o <<"@", "<", "b">>,
     p_footnote \o <<"@", "<", "b", ">">>,
     p_footnote \o <<"@", "<", "b", ">", "[">>,
     p_footnote \o <<"@", "<", "b", ">", "{", "c">>,
     p_footnote \o <<"@", "<", "b", ">", "{", "c", "@">>}
FreeChars == {"[", "]", "\\", "{", "}", "@", "<", ">", "b"}

\* the world when _parse_file_inter of a.re reaches its first line
BlockStartWorld ==
    parse_file_begin(
        [rep |-> Parser_reporter(INFO, CRITICAL),
         par |-> Parser(INFO, CRITICAL), bsm |-> NoBsm, ism |-> NoIsm,
         prj |-> ParserProject, exc |-> "none"],
        0, a_re)

\* the variables hold the world w
Holds(w) ==
    /\ reporter = w.rep
    /\ parser = w.par
    /\ bsm = w.bsm
    /\ ism = w.ism
    /\ exc = w.exc

InitBlockStart ==
    /\ \E prefix \in BlockPrefixes :
          /\ Holds(parse_block_start_loop(
                       parse_block_start_begin(BlockStartWorld, 1),
                       1, prefix, 2))
          /\ input = [content |-> prefix, free |-> 0]
    /\ reporter2 = ProblemReporter(INFO, CRITICAL)
    /\ project = ParserProject
    /\ pc = "start"
    /\ last = [op |-> "prefix", ch |-> "", state |-> "None",
               ism_state |-> "None"]

\* one iteration of the loop of _parse_block_start
FeedCh ==
    /\ pc = "start"
    /\ input.free < MaxFree
    /\ \E ch \in FreeChars :
          /\ AfterCall(parse_block_start_ch(World, 1, ch,
                                            Len(input.content) + 2),
                       "start")
          /\ input' = [content |-> Append(input.content, ch),
                       free |-> input.free + 1]
          /\ last' = [op |-> "ch", ch |-> ch, state |-> bsm.state,
                      ism_state |-> ism.state]
    /\ UNCHANGED <<reporter2, project>>

\* the line is exhausted: the rest of _parse_block_start, and what parse_line
\* and _parse_line do with the value it returned
EndLine ==
    /\ pc = "start"
    /\ AfterCall(parse_line_bsm_result(
                     parse_line_begin_result(
                         parse_block_start_end(World, 1), 1)).w,
                 "done")
    /\ last' = [op |-> "end", ch |-> "", state |-> bsm.state,
                ism_state |-> ism.state]
    /\ UNCHANGED <<reporter2, project, input>>

NextBlockStart == FeedCh \/ EndLine

SpecBlockStart == InitBlockStart /\ [][NextBlockStart]_vars

\* the problems the step added to the retained list
NewProblems ==
    SubSeq(reporter'.problems, Len(reporter.problems) + 1,
           Len(reporter'.problems))

\* the step runs the first-line check on a block: "{" after the name or after
\* a parameter, or the end of the line after the name or after a parameter
OpensBlock ==
    /\ pc = "start"
    /\ bsm.state \in {BSM_PARSE_NAME, BSM_END_PARAM}
    /\ \/ last'.op = "ch" /\ last'.ch = "{"
       \/ last'.op = "end"
             /\ (bsm.state = BSM_PARSE_NAME =>
                    ism.state = ISM_NONE /\ bsm.tmp_lst # <<>>)
\* the name and the parameters of the block the step opens
OpenedName ==
    IF bsm.state = BSM_PARSE_NAME THEN bsm.tmp_lst ELSE bsm.name
OpenedParams ==
    IF bsm.state = BSM_PARSE_NAME THEN <<>> ELSE bsm.params

(* C5: with a Parser bound to a project, the first-line check of every      *)
(* opening of a block named image ends in one of three outcomes: the first  *)
(* parameter is the id of an image of the document and nothing is reported, *)
(* only the "<parent_id>-<id>" variant matches and one Warning is reported, *)
(* or one Error is reported; no exception other than these is raised.       *)
C5_ImageFirstLineCheck ==
    [][ (OpensBlock /\ OpenedName = n_image) =>
          LET IsCheck(q) == q.desc \in {"Image file does not exist",
                                        "includes prefix", "Undefined block"}
              checks == SelectSeq(NewProblems, IsCheck)
              imgs == project.images[parser.source_name]
              first == IF OpenedParams = <<>> THEN None
                       ELSE OpenedParams[1]
          IN /\ exc' = "none"
             /\ \/ /\ image_exist(first, imgs)
                   /\ checks = <<>>
                \/ /\ ~image_exist(first, imgs)
                   /\ image_id_wrong(first, <<"a">>, imgs)
                   /\ Len(checks) = 1
                   /\ checks[1].level = WARNING
                \/ /\ Len(checks) = 1
                   /\ checks[1].level = ERROR ]_vars

\* the pending text of the parameter being read: what a "]" would close
ParamText(b, m) == b.tmp_lst \o m.unprocessed

\* the step reads "]" right after a backslash inside a parameter
EscapedBracket ==
    /\ pc = "start"
    /\ bsm.state = BSM_IN_PARAM_BS
    /\ last'.op = "ch"
    /\ last'.ch = "]"

ReadsInParam(ch) ==
    /\ pc = "start"
    /\ bsm.state = BSM_IN_PARAM
    /\ last'.op = "ch"
    /\ last'.ch = ch

\* the inline machine is in the content of an inline
InContent(m) == m.state \in {ISM_INLINE_CONTENT, ISM_INLINE_CONTENT_AT}

(* C11: in a block parameter, an unescaped "]" read while an inline is in   *)
(* its content reports exactly one Error, is appended to the content of the *)
(* inline and does not close the parameter; the inline is still emitted at  *)
(* its closing "}", and a "]" read once the inline machine is idle closes   *)
(* the parameter: one more parameter, made of the text outside inlines.     *)
C11_BracketInInlineContent ==
    [][ /\ (ReadsInParam("]") /\ InContent(ism)) =>
              /\ exc' = "none"
              /\ Len(NewProblems) = 1
              /\ NewProblems[1] = ParseProblem(ERROR, parser.source_name, 1,
                                               "Inline is not finished")
              /\ bsm'.state = BSM_IN_PARAM
              /\ bsm'.params = bsm.params
              /\ bsm'.tmp_lst = bsm.tmp_lst
              /\ InContent(ism')
              /\ ism'.name = ism.name
              /\ ism'.unprocessed =
                    ism.unprocessed
                    \o (IF ism.state = ISM_INLINE_CONTENT_AT
                        THEN <<"@">> ELSE <<>>)
                    \o <<"]">>
              /\ parser'.current_inlines = parser.current_inlines
        /\ (ReadsInParam("}") /\ InContent(ism)) =>
              /\ exc' = "none"
              /\ bsm'.state = BSM_IN_PARAM
              /\ bsm'.params = bsm.params
              /\ ism'.state = ISM_NONE
              /\ Len(parser'.current_inlines) =
                    Len(parser.current_inlines) + 1
              /\ SubSeq(parser'.current_inlines, 1,
                        Len(parser.current_inlines)) = parser.current_inlines
              /\ LET new_inline ==
                        parser'.current_inlines[Len(parser'.current_inlines)]
                 IN /\ new_inline.name = ism.name
                    /\ Take(new_inline.raw_content, Len(ism.unprocessed))
                          = ism.unprocessed
        /\ (ReadsInParam("]") /\ ism.state = ISM_NONE) =>
              /\ exc' = "none"
              /\ NewProblems = <<>>
              /\ bsm'.state = BSM_END_PARAM
              /\ bsm'.params = Append(bsm.params, ParamText(bsm, ism))
      ]_vars

\* "]" was read in the content of an inline of a parameter, then the "}" of
\* the inline and the "]" of the parameter: one Error, one inline whose
\* content ends with "]", one parameter
C11_Witness ==
    /\ pc = "start"
    /\ last.op = "ch"
    /\ last.ch = "]"
    /\ last.ism_state = ISM_NONE
    /\ bsm.state = BSM_END_PARAM
    /\ Len(bsm.params) = 1
    /\ Len(reporter.problems) = 1
    /\ reporter.problems[1].desc = "Inline is not finished"
    /\ Len(parser.current_inlines) = 1
    /\ parser.current_inlines[1].raw_content = <<"c", "]">>

RECURSIVE before_bracket(_)
\* the characters of s before its first "]"
before_bracket(s) ==
    IF s = <<>> \/ Head(s) = "]" THEN <<>>
    ELSE <<Head(s)>> \o before_bracket(Tail(s))

\* the line went through the recovery of "]" in BSM_PARSE_NAME: the block
\* machine has left BSM_PARSE_NAME on a "]" that no "[" precedes
RecoveredFromBracket ==
    /\ pc = "start"
    /\ Len(before_bracket(input.content)) < Len(input.content)
    /\ \A i \in 1..Len(before_bracket(input.content)) :
          input.content[i] \notin {"[", "{"}

\* the blocks the step added to all_blocks
NewBlocks ==
    SubSeq(parser'.all_blocks, Len(parser.all_blocks) + 1,
           Len(parser'.all_blocks))

(* C32: "]" read in BSM_PARSE_NAME reports one Error and moves the block    *)
(* machine to BSM_END_PARAM; the rest of the opening line is still parsed   *)
(* ("[" starts a parameter, "{" opens a body) and the Block that is opened  *)
(* or produced carries the name read before the "]"; nothing is raised.     *)
C32_BracketAfterName ==
    [][ /\ (/\ pc = "start" /\ bsm.state = BSM_PARSE_NAME
            /\ last'.op = "ch" /\ last'.ch = "]") =>
              /\ exc' = "none"
              /\ Len(NewProblems) = 1
              /\ NewProblems[1].level = ERROR
              /\ NewProblems[1].desc = "Invalid param end"
              /\ bsm'.state = BSM_END_PARAM
        /\ (/\ RecoveredFromBracket /\ bsm.state = BSM_END_PARAM
            /\ last'.op = "ch" /\ last'.ch = "[") =>
              /\ exc' = "none"
              /\ bsm'.state = BSM_IN_PARAM
        /\ (/\ RecoveredFromBracket /\ bsm.state = BSM_END_PARAM
            /\ last'.op = "ch" /\ last'.ch = "{") =>
              /\ exc' = "none"
              /\ bsm'.state = BSM_IN_BLOCK
              /\ bsm'.unfinished_block.name = before_bracket(input.content)
        /\ (RecoveredFromBracket /\ last'.op = "end") =>
              /\ exc' = "none"
              /\ \A i \in 1..Len(NewBlocks) :
                    NewBlocks[i].name = before_bracket(input.content)
      ]_vars

\* C35: for every line beginning with "//" read in BSM_NONE, whatever its
\* content, the scan of the opening line returns with the block machine in
\* BSM_NONE or BSM_IN_BLOCK: the assertions of parse_line hold and nothing
\* is raised.
C35_OpeningLineEndsIdleOrInBlock ==
    [][ (pc = "start" /\ last'.op = "end") =>
          /\ exc' = "none"
          /\ bsm'.state \in {BSM_NONE, BSM_IN_BLOCK}
      ]_vars

----------------------------------------------------------------------------
(* SpecInline: line 1 of document a.re is no heading and no block construct; *)
(* the inline machine of _parse_line reads it one character per step, then   *)
(* end() is called and the document ends. The run starts after the loop has  *)
(* read one of the openings below; the characters that follow are free.      *)

MaxInlineFree == 4

InlinePrefixes ==
    {<<>>,
     <<"@", "<", "b">>, <<"@", "<", "q">>,
     <<"@", "<", "b", ">", "{">>, <<"@", "<", "q", ">", "{">>,
     <<"@", "<", "q", ">", "{", "c", "}", "@", "<", "b", ">", "{">>}
InlineChars == {"@", "<", ">", "{", "}", "\\", "b", "q"}

\* the world when _parse_line starts its inline machine on line 1 of a.re
InlineWorld ==
    [info_if(TRUE,
             parse_file_begin(
                 [rep |-> Parser_reporter(INFO, CRITICAL),
                  par |-> Parser(INFO, CRITICAL), bsm |-> NoBsm,
                  ism |-> NoIsm, prj |-> ParserProject, exc |-> "none"],
                 0, a_re),
             1, "No bookmark found yet")
     EXCEPT !.ism = InlineStateMachine(1)]

\* the passthrough text a returned value stands for
Passthrough(ret) == IF ret.type = "str" THEN ret.s ELSE <<>>

InitInline ==
    /\ \E prefix \in InlinePrefixes :
          /\ Holds(parse_line_ism_loop(InlineWorld, prefix, 0))
          /\ input = [content |-> prefix, free |-> 0, out |-> <<>>]
    /\ reporter2 = ProblemReporter(INFO, CRITICAL)
    /\ project = ParserProject
    /\ pc = "inline"
    /\ last = [op |-> "prefix", ch |-> "", ism_state |-> "None",
               ret |-> RetNone]

\* the caller's side of ret = ism.parse_ch(ch, pos)
InlineChResult(r, ch) ==
    /\ AfterCall(parse_line_ism_result(r), "inline")
    /\ input' = [content |-> Append(input.content, ch),
                 free |-> input.free + 1,
                 out |-> input.out \o Passthrough(r.ret)]
    /\ last' = [op |-> "ch", ch |-> ch, ism_state |-> ism.state,
                ret |-> r.ret]

\* one iteration of the loop over the characters of the line
InlineCh ==
    /\ pc = "inline"
    /\ input.free < MaxInlineFree
    /\ \E ch \in InlineChars :
          InlineChResult(
              InlineStateMachine_parse_ch(World, ch, Len(input.content)), ch)
    /\ UNCHANGED <<reporter2, project>>

\* the caller's side of ism.end()
InlineEndResult(r) ==
    /\ AfterCall(r.w, "eol")
    /\ input' = [input EXCEPT !.out = @ \o Passthrough(r.ret)]
    /\ last' = [op |-> "end", ch |-> "", ism_state |-> ism.state,
                ret |-> r.ret]

\* the line is exhausted: ism.end()
InlineEnd ==
    /\ pc = "inline"
    /\ InlineEndResult(InlineStateMachine_end(World))
    /\ UNCHANGED <<reporter2, project>>

\* the document has no other line: the rest of _parse_file_inter
InlineEndDoc ==
    /\ pc = "eol"
    /\ AfterCall(parse_file_end(World), "done")
    /\ last' = [last EXCEPT !.op = "eod"]
    /\ UNCHANGED <<reporter2, project, input>>

NextInline == InlineCh \/ InlineEnd \/ InlineEndDoc

SpecInline == InitInline /\ [][NextInline]_vars

\* the step completes an inline: parse_ch returned it
CompletesInline == pc = "inline" /\ last'.op = "ch" /\ last'.ret.type = "Inline"

C30_ContentAtOther ==
    [][ (/\ pc = "inline"
         /\ last'.op = "ch"
         /\ ism.state = ISM_INLINE_CONTENT_AT
         /\ last'.ch \notin {"}", "<", "@"})
        => /\ ism'.unprocessed = ism.unprocessed \o <<"@", last'.ch>>
           /\ ism'.state = ISM_INLINE_CONTENT
      ]_vars

\* the step is the call of end() when the line is exhausted
EndsLine == pc = "inline" /\ last'.op = "end"

\* C31: end() reports exactly one "invalid state" Error and returns normally,
\* with no value, in every state other than ISM_NONE and ISM_AT that the end
\* of a line can find (tag, after the tag, content, content after a backslash,
\* content after "@"); in ISM_NONE it returns nothing and in ISM_AT it
\* returns the buffered "@", both without a problem.
C31_EndOfLine ==
    [][ EndsLine =>
          /\ ism.state \in {ISM_INLINE_TAG, ISM_END_INLINE_TAG,
                            ISM_INLINE_CONTENT, ISM_INLINE_CONTENT_BS,
                            ISM_INLINE_CONTENT_AT} =>
                /\ exc' = "none"
                /\ Len(NewProblems) = 1
                /\ NewProblems[1].level = ERROR
                /\ NewProblems[1].desc = "Invalid state"
                /\ last'.ret.type = "None"
          /\ (ism.state = ISM_NONE /\ exc' = "none") =>
                /\ NewProblems = <<>>
                /\ last'.ret.type = "None"
          /\ ism.state = ISM_AT =>
                /\ exc' = "none"
                /\ NewProblems = <<>>
                /\ last'.ret.type = "str"
                /\ last'.ret.s = <<"@">>
      ]_vars

\* C36: the assertions of the inline machine hold for every sequence of
\* characters (empty buffer when "<" is read in ISM_AT, unset name when ">"
\* is read in ISM_INLINE_TAG, empty buffer when end() is called in ISM_NONE,
\* also after the recovery from ISM_END_INLINE_TAG): no AssertionError.
C36_InlineAssertionsHold == exc # "AssertionError"

\* the line read so far has no "@<"
NoInlineStart == ~str_contains(<<"@", "<">>, input.content)

\* C39: a line without "@<" fed to a fresh inline machine, then end(): no
\* Inline is emitted, no problem is reported, nothing is raised, and the
\* returned passthrough strings, with the value of end() last, spell the
\* line.
C39_PassthroughIdentity ==
    NoInlineStart =>
       /\ exc = "none"
       /\ parser.current_inlines = <<>>
       /\ parser.all_inlines = <<>>
       /\ reporter.problems = InlineWorld.rep.problems
       /\ pc = "inline" =>
             /\ ism.state \in {ISM_NONE, ISM_AT}
             /\ input.content =
                   input.out \o (IF ism.state = ISM_AT THEN <<"@">> ELSE <<>>)
       /\ pc \in {"eol", "done"} => input.out = input.content

\* a line "@..@" without "@<" was read to its end and end() returned the
\* last "@"
C39_Witness ==
    /\ pc = "eol"
    /\ NoInlineStart
    /\ Len(input.content) = MaxInlineFree
    /\ input.content[1] = "@"
    /\ input.content[Len(input.content)] = "@"
    /\ last.op = "end"
    /\ last.ret.type = "str"

----------------------------------------------------------------------------
(* SpecBook: a project is built from its catalog.yml, then one Parser       *)
(* parses every document of project.source_filenames in order (main.py      *)
(* lines 73-86).                                                            *)

MaxCatalogLen == 2

c_re == <<"c", ".", "r", "e">>
catalog_yml == <<"c", "a", "t", "a", "l", "o", "g", ".", "y", "m", "l">>
\* the source directory and its regular files: c.re does not exist
s_dir == <<"/", "s">>
InDir(dir, names) == {dir \o <<"/">> \o name : name \in names}
BookFiles == FileSystem(s_dir, InDir(s_dir, {a_re, b_re, catalog_yml}), {})
CatalogNames == {a_re, b_re, c_re}

\* the sequences over set of a length between lo and hi
SeqsOf(set, lo, hi) ==
    UNION {[1..n -> set] : n \in lo..hi}

\* the values yaml.load gives for a catalog: CHAPS is a list of names or a
\* list with one part
YamlStr(s) == [type |-> "str", s |-> s]
YamlPart(title, chaps) == [type |-> "dict", title |-> title, chaps |-> chaps]
YamlCatalogs ==
    [PREDEF : {<<>>, <<a_re>>, <<c_re>>},
     CHAPS : {[i \in DOMAIN names |-> YamlStr(names[i])] :
                 names \in SeqsOf(CatalogNames, 0, MaxCatalogLen)}
             \cup {<<YamlPart("Part", chaps)>> :
                      chaps \in SeqsOf(CatalogNames, 1, MaxCatalogLen)},
     POSTDEF : {<<>>, <<a_re>>}]

\* the lines a document may hold
BookContents == {<<L_chap, L_sect, L_chap>>, <<L_chap>>, <<L_text>>}

InitBook ==
    /\ \E yaml_data \in YamlCatalogs, content_a, content_b \in BookContents :
          input = [yaml_data |-> yaml_data,
                   content |-> (a_re :> content_a @@ b_re :> content_b),
                   next |-> 1]
    /\ project = ReVIEWProject(BookFiles)
    /\ parser = Parser(INFO, CRITICAL)
    /\ reporter = Parser_reporter(INFO, CRITICAL)
    /\ reporter2 = ProblemReporter(INFO, CRITICAL)
    /\ bsm = NoBsm
    /\ ism = NoIsm
    /\ exc = "none"
    /\ pc = "new"
    /\ last = NoLast

\* what init() keeps of the catalog: the project is ready when it is accepted
RecognizedProject(r) == [r.prj EXCEPT !.ready = r.accepted]

\* ReVIEWProject.init: the catalog file is looked for and parsed
RecognizeCatalog ==
    /\ pc = "new"
    /\ project' = RecognizedProject(
                      _try_parse_catalog_file(project, catalog_yml,
                                              input.yaml_data))
    /\ pc' = IF project'.ready THEN "idle" ELSE "rejected"
    /\ last' = [op |-> "init"]
    /\ UNCHANGED <<reporter, reporter2, parser, bsm, ism, exc, input>>

\* one iteration of the loop over project.source_filenames: parse_file
ParseFile ==
    /\ pc = "idle"
    /\ input.next <= Len(project.source_filenames)
    /\ AfterCall(Parser_parse_file(
                     World, 0, project.source_filenames[input.next],
                     input.content[project.source_filenames[input.next]]),
                 "idle")
    /\ input' = [input EXCEPT !.next = @ + 1]
    /\ last' = [op |-> "file"]
    /\ UNCHANGED <<reporter2, project>>

NextBook == RecognizeCatalog \/ ParseFile

SpecBook == InitBook /\ [][NextBook]_vars

\* the bookmarks of chapters: those that carry a chapter index
ChapterBookmarks ==
    LET HasIndex(b) == b.source_chap_index # NoIndex
    IN SelectSeq(parser.bookmarks, HasIndex)

(* C9: after one Parser has parsed every document of an accepted catalog in *)
(* order, no two chapter bookmarks share the pair (source_document,         *)
(* chapter_index), and the chapter-to-bookmark map has one entry per        *)
(* chapter bookmark.                                                        *)
C9_ChapterKeysUnique ==
    (pc = "idle" /\ input.next > Len(project.source_filenames)) =>
        /\ \A i, j \in 1..Len(ChapterBookmarks) :
              (ChapterBookmarks[i].source_file_name
                  = ChapterBookmarks[j].source_file_name
               /\ ChapterBookmarks[i].source_chap_index
                  = ChapterBookmarks[j].source_chap_index) => i = j
        /\ Cardinality(DOMAIN parser.chap_to_bookmark)
              = Len(ChapterBookmarks)

----------------------------------------------------------------------------
(* SpecCatalog: ReVIEWProject.init after the config file was found: the new  *)
(* catalog format is tried, then the legacy files, then the drafts are      *)
(* collected. The source directory /s holds a.re and b.re, the symlink l.re *)
(* and the catalog files of the run; c.re does not exist.                   *)

MaxChapsLines == 4

l_re == <<"l", ".", "r", "e">>
NL == <<"\n">>
\* /s2 is a sibling of the source directory; it holds a regular file a.re
s2_dir == <<"/", "s", "2">>
up_s2_a_re == <<".", ".", "/", "s", "2", "/">> \o a_re

\* what yaml.load gives: a file without CHAPS, a flat catalog, one with parts
Y_none == [PREDEF |-> <<>>, CHAPS |-> <<>>, POSTDEF |-> <<>>]
Y_plain ==
    [PREDEF |-> <<b_re, c_re>>, CHAPS |-> <<YamlStr(a_re), YamlStr(l_re)>>,
     POSTDEF |-> <<b_re>>]
Y_parts ==
    [PREDEF |-> <<>>,
     CHAPS |-> <<YamlPart("P", <<b_re>>), YamlPart("Q", <<a_re, b_re>>)>>,
     POSTDEF |-> <<a_re>>]

\* the YAML files of the source directory: name -> content
NewFiles ==
    {<<>>,
     f_catalog_yml :> Y_plain,
     f_catalog_yml :> Y_parts,
     f_catalog_yaml :> Y_plain,
     f_config_yaml :> Y_none,
     f_config_yaml :> Y_plain,
     f_catalog_yml :> Y_none @@ f_catalog_yaml :> Y_parts}

\* the legacy files of the source directory: name -> lines
ChapsLines == {a_re \o NL, b_re \o NL, l_re \o NL, NL}
LegacyFiles ==
    {chaps @@ part @@ predef @@ postdef :
        chaps \in {<<>>} \cup {f_CHAPS :> lines :
                                 lines \in SeqsOf(ChapsLines, 0,
                                                  MaxChapsLines)},
        part \in {<<>>, f_PART :> <<>>, f_PART :> <<<<"P">> \o NL>>,
                  f_PART :> <<<<"P">> \o NL, <<"Q">> \o NL>>},
        predef \in {<<>>, f_PREDEF :> <<b_re \o NL, NL, c_re \o NL>>,
                    f_PREDEF :> <<up_s2_a_re \o NL, b_re \o NL>>},
        postdef \in {<<>>, f_POSTDEF :> <<l_re \o NL, a_re>>}}

\* a file's content, empty for a file that is not there
ContentOf(files, name, empty) ==
    IF name \in DOMAIN files THEN files[name] ELSE empty

\* the file system of a run
CatalogFiles(yamls, legacy) ==
    FileSystem(s_dir,
               InDir(s_dir, {a_re, b_re, l_re} \cup DOMAIN yamls
                                \cup DOMAIN legacy)
                   \cup InDir(s2_dir, {a_re}),
               InDir(s_dir, {l_re}))

InitCatalog ==
    /\ \E yamls \in NewFiles, legacy \in LegacyFiles :
          /\ input =
                [yamls |-> [name \in {f_catalog_yml, f_catalog_yaml,
                                      f_config_yaml}
                               |-> ContentOf(yamls, name, Y_none)],
                 contents |-> [name \in {f_CHAPS, f_PART, f_PREDEF,
                                         f_POSTDEF}
                                  |-> ContentOf(legacy, name, <<>>)]]
          /\ project = ReVIEWProject(CatalogFiles(yamls, legacy))
    /\ parser = NoParser
    /\ reporter = ProblemReporter(INFO, CRITICAL)
    /\ reporter2 = ProblemReporter(INFO, CRITICAL)
    /\ bsm = NoBsm
    /\ ism = NoIsm
    /\ exc = "none"
    /\ pc = "init"
    /\ last = NoLast

\* if self._recognize_new_catalog_files(logger=logger): return True
RecognizeNewResult(r) ==
    /\ project' = r.prj
    /\ exc' = r.exc
    /\ pc' = IF r.exc # "none" THEN "raised"
             ELSE IF r.accepted THEN "structure" ELSE "legacy"
    /\ last' = [op |-> "new", accepted |-> r.accepted]

RecognizeNew ==
    /\ pc = "init"
    /\ RecognizeNewResult(_recognize_new_catalog_files(project, input.yamls))
    /\ UNCHANGED <<reporter, reporter2, parser, bsm, ism, input>>

\* return self._recognize_legacy_catalog_files(logger=logger)
RecognizeLegacyResult(r) ==
    /\ project' = r.prj
    /\ exc' = r.exc
    /\ pc' = IF r.exc # "none" THEN "raised"
             ELSE IF r.accepted THEN "structure" ELSE "rejected"
    /\ last' = [op |-> "legacy", accepted |-> r.accepted]

RecognizeLegacy ==
    /\ pc = "legacy"
    /\ RecognizeLegacyResult(
          _recognize_legacy_catalog_files(project, input.contents))
    /\ UNCHANGED <<reporter, reporter2, parser, bsm, ism, input>>

\* the rest of init(): the structure is looked at, the drafts are collected
RecognizeDrafts ==
    /\ pc = "structure"
    /\ IF project.parts.is_none /\ project.chaps.is_none
       THEN project' = project /\ pc' = "rejected"
       ELSE /\ project' = [_recognize_draft_files(project)
                             EXCEPT !.ready = TRUE]
            /\ pc' = "ready"
    /\ last' = [last EXCEPT !.op = "drafts"]
    /\ UNCHANGED <<reporter, reporter2, parser, bsm, ism, exc, input>>

NextCatalog == RecognizeNew \/ RecognizeLegacy \/ RecognizeDrafts

SpecCatalog == InitCatalog /\ [][NextCatalog]_vars

\* a catalog was recognised, and in which format
Recognized == pc \in {"structure", "ready"}
NewFormat == project.catalog_file # None
\* the file is a regular file of the source directory
Present(name) ==
    /\ (s_dir \o <<"/">> \o name) \in project.files.exists
    /\ (s_dir \o <<"/">> \o name) \notin project.files.links

(* C14: after a successful catalog recognition, new format or legacy,       *)
(* exactly one of parts and chaps is set and the other is None; parts is    *)
(* the one that is set iff the first CHAPS element is a mapping (new        *)
(* format) or the PART file has at least one line (legacy).                 *)
C14_PartsXorChaps ==
    Recognized =>
        /\ project.parts.is_none # project.chaps.is_none
        /\ project.chaps.is_none =
              (IF NewFormat
               THEN input.yamls[project.catalog_file].CHAPS[1].type = "dict"
               ELSE Present(f_PART) /\ Len(input.contents[f_PART]) >= 1)

\* legacy files with a PART of two titles were recognised as two parts
C14_Witness ==
    /\ pc = "ready"
    /\ ~NewFormat
    /\ project.chaps.is_none
    /\ Len(project.parts.list) = 2
    /\ project.parts.list[2].chaps # <<>>

\* the names the catalog sections accepted
AcceptedNames ==
    {project.predef_filenames[i] : i \in 1..Len(project.predef_filenames)}
    \cup {project.source_filenames[i] :
             i \in 1..Len(project.source_filenames)}
    \cup {project.postdef_filenames[i] :
             i \in 1..Len(project.postdef_filenames)}

\* the path a name of the catalog stands for
Resolved(name) == os_path_abspath(os_path_join(s_dir, name))

(* C15: every document name accepted into predef, chapters/parts or postdef *)
(* resolves to an existing path that is no symlink and lies inside          *)
(* source_dir.                                                              *)
C15_AcceptedInsideSourceDir ==
    Recognized =>
        \A name \in AcceptedNames :
            /\ Resolved(name) \in project.files.exists
            /\ Resolved(name) \notin project.files.links
            /\ startswith(Resolved(name), s_dir \o <<"/">>)

\* the names of a sequence
Range(seq) == {seq[i] : i \in 1..Len(seq)}

\* the names written in a new-format catalog
YamlWritten(yaml_data) ==
    Range(yaml_data.PREDEF) \cup Range(yaml_data.POSTDEF)
    \cup UNION {IF yaml_data.CHAPS[i].type = "dict"
                THEN Range(yaml_data.CHAPS[i].chaps)
                ELSE {yaml_data.CHAPS[i].s} :
                   i \in 1..Len(yaml_data.CHAPS)}

\* the names written in the legacy files that are there
LegacyWritten ==
    UNION {IF Present(name)
           THEN {rstrip(input.contents[name][i]) :
                    i \in 1..Len(input.contents[name])}
           ELSE {} : name \in {f_PREDEF, f_CHAPS, f_POSTDEF}}

\* the names written in the catalog that was recognised
WrittenNames ==
    IF NewFormat THEN YamlWritten(input.yamls[project.catalog_file])
    ELSE LegacyWritten

(* C16: after project initialisation, a .re file of source_dir is a draft   *)
(* iff its name is written in no section of the catalog; no draft is in the *)
(* ordered document list.                                                   *)
C16_DraftsAreUnlisted ==
    (pc = "ready") =>
        /\ \A re_file \in os_listdir(project.files) :
              endswith_re(re_file) =>
                 ((re_file \in project.draft_filenames)
                     <=> (re_file \notin WrittenNames))
        /\ project.draft_filenames \cap Range(project.source_filenames) = {}

\* the non-blank lines of a legacy file that is there, stripped
LegacyLines(name) ==
    LET NonBlank(line) == line # <<>>
    IN IF Present(name)
       THEN SelectSeq([i \in 1..Len(input.contents[name])
                          |-> rstrip(input.contents[name][i])], NonBlank)
       ELSE <<>>

RECURSIVE YamlChapters(_)
\* the chapter names of a new-format CHAPS, part by part
YamlChapters(chaps) ==
    IF chaps = <<>> THEN <<>>
    ELSE (IF Head(chaps).type = "dict" THEN Head(chaps).chaps
          ELSE <<Head(chaps).s>>) \o YamlChapters(Tail(chaps))

\* the names the recognised catalog lists in a section, in listed order
Listed(section) ==
    IF NewFormat
    THEN IF section = "CHAPS"
         THEN YamlChapters(input.yamls[project.catalog_file].CHAPS)
         ELSE input.yamls[project.catalog_file][section]
    ELSE LegacyLines(IF section = "CHAPS" THEN f_CHAPS
                     ELSE IF section = "PREDEF" THEN f_PREDEF
                     ELSE f_POSTDEF)

\* the chapters the project holds, part by part
ProjectChapters ==
    IF project.chaps.is_none THEN part_chaps_concat(project.parts.list)
    ELSE project.chaps.list

(* C17: the ordered document list is the accepted predef documents in       *)
(* listed order, then the accepted chapters in part order and chapter order *)
(* within each part (or flat CHAPS order), then the accepted postdef        *)
(* documents in listed order, for both catalog formats.                     *)
C17_DocumentOrder ==
    Recognized =>
        LET OkFile(name) == _is_appropriate_file(project.files, name)
            OkRe(name) == _is_appropriate_re_file(project.files, name)
        IN /\ project.predef_filenames =
                 SelectSeq(Listed("PREDEF"), OkFile)
           /\ ProjectChapters = SelectSeq(Listed("CHAPS"), OkRe)
           /\ project.postdef_filenames =
                 SelectSeq(Listed("POSTDEF"), OkFile)
           /\ project.source_filenames =
                 project.predef_filenames \o ProjectChapters
                    \o project.postdef_filenames

\* legacy files with PREDEF, two parts and POSTDEF were recognised
C17_Witness ==
    /\ pc = "ready"
    /\ ~NewFormat
    /\ project.predef_filenames # <<>>
    /\ project.postdef_filenames # <<>>
    /\ project.chaps.is_none
    /\ Len(project.parts.list) = 2
    /\ project.parts.list[1].chaps # <<>>
    /\ project.parts.list[2].chaps # <<>>

\* the legacy reader ran on a CHAPS file with a PART file of k >= 1 titles
LegacyWithParts ==
    /\ last.op = "legacy"
    /\ Present(f_CHAPS)
    /\ Present(f_PART)
    /\ Len(input.contents[f_PART]) >= 1

(* C18: with a legacy catalog whose PART file has k >= 1 titles, catalog    *)
(* recognition completes for every CHAPS content and yields at most k       *)
(* parts, which hold the accepted documents of CHAPS in order.              *)
C18_LegacyPartsComplete ==
    LegacyWithParts =>
        /\ exc = "none"
        /\ pc = "structure"
        /\ ~project.parts.is_none
        /\ Len(project.parts.list) <= Len(input.contents[f_PART])
        /\ Len(project.parts.list) >= 1
        /\ part_chaps_concat(project.parts.list)
              = SelectSeq(LegacyLines(f_CHAPS),
                          LAMBDA name :
                              _is_appropriate_re_file(project.files, name))

(* C19: without an explicit catalog file, new-format discovery tries         *)
(* catalog.yml and then catalog.yaml: a directory with a valid catalog.yaml *)
(* and no catalog.yml is recognised through that file, and no other file    *)
(* name is accepted as a new-format catalog.                                *)
C19_NewCatalogCandidates ==
    (last.op = "new") =>
        /\ (/\ ~Present(f_catalog_yml)
            /\ Present(f_catalog_yaml)
            /\ input.yamls[f_catalog_yaml].CHAPS # <<>>)
           => (last.accepted /\ project.catalog_file = f_catalog_yaml)
        /\ last.accepted =>
              project.catalog_file \in {f_catalog_yml, f_catalog_yaml}

----------------------------------------------------------------------------
(* SpecGuess: guess_source_dir on a directory tree: the base directory, its *)
(* directories d and f, and the directory e of d.                           *)

MaxDepth == 1

readme == <<"R", "E", "A", "D", "M", "E">>
GuessFiles == SUBSET {f_config_yml, a_re, readme}
d_dir == <<<<"d">>>>
e_dir == <<<<"d">>, <<"e">>>>
f_dir == <<<<"f">>>>

\* the trees
GuessTrees ==
    {(<<>> :> base) @@ d @@ f :
        base \in GuessFiles,
        d \in {<<>>} \cup {d_dir :> files : files \in GuessFiles}
               \cup {(d_dir :> files) @@ (e_dir :> more) :
                        files \in GuessFiles, more \in GuessFiles},
        f \in {<<>>} \cup {f_dir :> files : files \in GuessFiles}}

InitGuess ==
    /\ \E tree \in GuessTrees, depth \in -1..MaxDepth :
          input = [tree |-> tree, depth |-> depth]
    /\ project = NoProject
    /\ parser = NoParser
    /\ reporter = ProblemReporter(INFO, CRITICAL)
    /\ reporter2 = ProblemReporter(INFO, CRITICAL)
    /\ bsm = NoBsm
    /\ ism = NoIsm
    /\ exc = "none"
    /\ pc = "guess"
    /\ last = NoLast

\* source_dir = ReVIEWProject.guess_source_dir(file_path, depth)
GuessSourceDir ==
    /\ pc = "guess"
    /\ \E ret \in guess_source_dir(input.tree, <<>>, input.depth) :
          last' = [op |-> "guess", ret |-> ret]
    /\ pc' = "guessed"
    /\ UNCHANGED <<reporter, reporter2, parser, bsm, ism, project, exc,
                   input>>

NextGuess == GuessSourceDir

SpecGuess == InitGuess /\ [][NextGuess]_vars

(* C20: guess_source_dir(base) returns base whenever base directly contains *)
(* a catalog/config-related file, and whenever it contains no such file but *)
(* contains a .re file; it returns a subdirectory only when base contains   *)
(* neither.                                                                 *)
C20_GuessPrefersBase ==
    (pc = "guessed") =>
        /\ (has_related_files(input.tree[<<>>])
            \/ has_re_files(input.tree[<<>>]))
           => last.ret = FoundDir(<<>>)
        /\ (last.ret.found /\ last.ret.dir # <<>>)
           => /\ ~has_related_files(input.tree[<<>>])
              /\ ~has_re_files(input.tree[<<>>])


----------------------------------------------------------------------------
(* SpecImages: ReVIEWProject.init from its image directory on, over the     *)
(* documents of a project and the entries of its image directory.           *)

\* files directly in the image directory
MaxImageFiles == 3

a_b_re == <<"a", "-", "b", ".", "r", "e">>
ImageDocNames == {a_re, a_b_re, b_re}

png == <<".", "p", "n", "g">>
x_png == <<"x">> \o png
y_png == <<"y">> \o png
ImageFileNames ==
    {<<"a", "-", "x">> \o png, <<"a", "-", "a">> \o png,
     <<"a", "-", "b", "-", "x">> \o png, <<"b", "-", "x">> \o png,
     <<"c">> \o png, <<"a", "-">> \o png}
ImageSubdirNames == {<<"a">>, <<"b">>}
SubdirListings == {<<>>, <<x_png>>, <<x_png, y_png>>, <<y_png, x_png>>}

ImageDirs ==
    {ImageDir(FALSE, {}, <<>>)}
    \cup {ImageDir(TRUE, files, dirs) :
            files \in {F \in SUBSET ImageFileNames :
                          Cardinality(F) <= MaxImageFiles},
            dirs \in UNION {[D -> SubdirListings] :
                               D \in SUBSET ImageSubdirNames}}

\* the project after _recognize_draft_files: listed documents and drafts
ImageProject(listed, drafts) ==
    [ReVIEWProject(FileSystem(s_dir, InDir(s_dir, listed \cup drafts), {}))
        EXCEPT !.catalog_file = f_catalog_yml,
               !.source_filenames = set_list(listed),
               !.chaps = ListOf(set_list(listed)),
               !.draft_filenames = drafts]

InitImages ==
    /\ reporter = ProblemReporter(INFO, CRITICAL)
    /\ reporter2 = reporter
    /\ parser = NoParser
    /\ bsm = NoBsm
    /\ ism = NoIsm
    /\ \E listed \in SUBSET ImageDocNames :
       \E drafts \in SUBSET (ImageDocNames \ listed) :
          project = ImageProject(listed, drafts)
    /\ exc = "none"
    /\ pc = "drafts"
    /\ \E dir \in ImageDirs : input = [dir |-> dir]
    /\ last = NoLast

RecognizeImagesResult(r) ==
    /\ project' = [r.prj EXCEPT !.ready = (r.exc = "none")]
    /\ exc' = r.exc
    /\ pc' = IF r.exc = "none" THEN "ready" ELSE "raised"

\* init, lines 325-340
RecognizeImages ==
    /\ pc = "drafts"
    /\ RecognizeImagesResult(init_images(project, input.dir))
    /\ last' = [op |-> "init"]
    /\ UNCHANGED <<reporter, reporter2, parser, bsm, ism, input>>

NextImages == RecognizeImages

SpecImages == InitImages /\ [][NextImages]_vars

\* the documents of the project, the key of a document and its images
ProjectDocs == Range(all_filenames(project))
ImagesOf(doc) ==
    IF doc \in DOMAIN project.images THEN Range(project.images[doc]) ELSE {}
Associated == pc = "ready" /\ input.dir.isdir
rel(name) == s_images \o <<"/">> \o name

\* C21: after association, for every listed or draft document doc.re whose
\* id names no subdirectory of the image directory, every file
\* doc-<id>.<ext> of the image directory with a non-empty <id> is in
\* images[doc.re] as a ProjectImage with that id.
C21_FlatImagesAssociated ==
    Associated =>
        \A doc \in ProjectDocs :
            splitext_head(doc) \notin DOMAIN input.dir.dirs =>
                \A f \in input.dir.files :
                    /\ startswith(splitext_head(f),
                                  splitext_head(doc) \o <<"-">>)
                    /\ Len(splitext_head(f)) > Len(splitext_head(doc)) + 1
                    => \E pi \in ImagesOf(doc) :
                          /\ pi.rel_path = rel(f)
                          /\ pi.id = Drop(splitext_head(f),
                                          Len(splitext_head(doc)) + 1)

\* C22: after association, for every listed or draft document doc.re whose
\* id names a subdirectory of the image directory, every file of that
\* subdirectory is in images[doc.re] as a ProjectImage whose id is the file
\* name without extension and whose relative path is images/doc/<file>.
C22_SubdirImagesAssociated ==
    Associated =>
        \A doc \in ProjectDocs :
            splitext_head(doc) \in DOMAIN input.dir.dirs =>
                \A f \in Range(input.dir.dirs[splitext_head(doc)]) :
                    \E pi \in ImagesOf(doc) :
                        /\ pi.rel_path = rel(splitext_head(doc) \o <<"/">> \o f)
                        /\ pi.id = splitext_head(f)

\* C23: after association over an existing image directory, every listed or
\* draft document is a key of the images mapping.
C23_EveryDocumentIsKey ==
    Associated => \A doc \in ProjectDocs : doc \in DOMAIN project.images

\* the documents an entry of the image directory is a source of images of
SourceOf(entry) ==
    {doc \in DOMAIN project.images :
        \E pi \in ImagesOf(doc) :
            \/ pi.rel_path = rel(entry)
            \/ startswith(pi.rel_path, rel(entry) \o <<"/">>)}
Unmappable(entry) ==
    Cardinality({i \in 1..Len(project.unmappable_images) :
                    project.unmappable_images[i] = entry})

\* C24: after association, every entry of the image directory is accounted
\* for exactly once: it is the source of the images of exactly one document
\* and not unmappable, or it is once in unmappable_images and the source of
\* no image.
C24_EveryEntryAccountedOnce ==
    Associated =>
        \A entry \in input.dir.files \cup DOMAIN input.dir.dirs :
            \/ Cardinality(SourceOf(entry)) = 1 /\ Unmappable(entry) = 0
            \/ Cardinality(SourceOf(entry)) = 0 /\ Unmappable(entry) = 1

----------------------------------------------------------------------------
(* SpecLines: one Parser reads one document line by line; the lines are     *)
(* headings, list-like lines, block openings and ends.                      *)

\* lines read in the document
MaxHintLines == 3

H_text == <<"x", "\n">>
H_star == <<"*", "x", "\n">>
H_star_sp == <<"*", " ", "x", "\n">>
H_num == <<"1", ".", "x", "\n">>
H_num_sp == <<"1", ".", " ", "x", "\n">>
H_chap == <<"=", " ", "T", "\n">>
H_tight == <<"=", "T", "\n">>
H_next == <<"=", "n", "e", "x", "t", "\n">>
H_column == <<"=", "=", "c", "o", "l", "u", "m", "n", " ", "T", "\n">>
H_six == <<"=", "=", "=", "=", "=", "=", " ", "T", "\n">>
H_emlist == <<"/", "/", "e", "m", "l", "i", "s", "t", "\n">>
H_emlist_open == <<"/", "/", "e", "m", "l", "i", "s", "t", "{", "\n">>
H_emlist_a_open ==
    <<"/", "/", "e", "m", "l", "i", "s", "t", "[", "a", "]", "{", "\n">>
H_lead_open == <<"/", "/", "l", "e", "a", "d", "{", "\n">>
H_footnote_a == <<"/", "/">> \o n_footnote \o <<"[", "a", "]", "\n">>
H_footnote_a_b ==
    <<"/", "/">> \o n_footnote \o <<"[", "a", "]", "[", "b", "]", "\n">>
H_close == <<"/", "/", "}", "\n">>
HintLines ==
    {H_text, H_star, H_star_sp, H_num, H_num_sp, H_chap, H_tight, H_next,
     H_column, H_six, H_emlist, H_emlist_open, H_emlist_a_open, H_lead_open,
     H_footnote_a, H_footnote_a_b, H_close}

\* the base_level argument of parse_file (main.py passes 0)
BaseLevels == {0, 1}

InitLines ==
    /\ parser = Parser(INFO, CRITICAL)
    /\ reporter = Parser_reporter(INFO, CRITICAL)
    /\ reporter2 = ProblemReporter(INFO, CRITICAL)
    /\ bsm = NoBsm
    /\ ism = NoIsm
    /\ project = ParserProject
    /\ exc = "none"
    /\ pc = "idle"
    /\ input = [ndocs |-> 0, total |-> 0, lines |-> <<>>]
    /\ last = NoLast

\* parse_file(path, base_level, source_name) is entered
StartLines ==
    /\ pc = "idle"
    /\ input.ndocs = 0
    /\ \E base_level \in BaseLevels :
          AfterCall(parse_file_begin(World, base_level, a_re), "doc")
    /\ input' = [input EXCEPT !.ndocs = @ + 1]
    /\ last' = [op |-> "begin", line |-> <<>>]
    /\ UNCHANGED <<reporter2, project>>

\* one iteration of the loop of _parse_file_inter: self._parse_line(...)
ReadLine ==
    /\ pc = "doc"
    /\ input.total < MaxHintLines
    /\ \E line \in HintLines :
          /\ AfterCall(Parser_parse_line(World, Len(input.lines) + 1, line),
                       "doc")
          /\ input' = [input EXCEPT !.total = @ + 1,
                                    !.lines = Append(@, line)]
          /\ last' = [op |-> "line", line |-> line]
    /\ UNCHANGED <<reporter2, project>>

\* the input is exhausted: the rest of _parse_file_inter
EndLines ==
    /\ pc = "doc"
    /\ AfterCall(parse_file_end(World), "idle")
    /\ last' = [op |-> "end", line |-> <<>>]
    /\ UNCHANGED <<reporter2, project, input>>

NextLines == StartLines \/ ReadLine \/ EndLines

SpecLines == InitLines /\ [][NextLines]_vars

\* the step reads a line, inside or outside a block body
ReadsLine == pc = "doc" /\ last'.op = "line"
ReadsInBody == ReadsLine /\ bsm.state = BSM_IN_BLOCK
ReadsOutside == ReadsLine /\ bsm.state # BSM_IN_BLOCK
\* the line without its trailing whitespace, the length of its run of "="
\* and what follows the run
LineRead == rstrip(last'.line)
RunOfLine == RunLength(LineRead, {"="})
AfterRun == Drop(LineRead, RunOfLine)
\* the step reads a heading outside a block body: the bookmark it appends
ReadsHeading == ReadsOutside /\ RunOfLine > 0
NewBookmark == parser'.bookmarks[Len(parser'.bookmarks)]

\* the number of parameters the schema gives a known block
SchemaParams(name) ==
    IF name \in {n_noindent, n_lead} THEN 0
    ELSE IF name = n_emlist THEN 1
    ELSE 2
KnownBlocks ==
    {n_noindent, n_lead, n_emlist, n_table, n_list, n_listnum, n_image,
     n_footnote}
\* the step adds a block to the parser's block list
AddsBlock == ReadsLine /\ Len(parser'.all_blocks) = Len(parser.all_blocks) + 1
AddedBlock == parser'.all_blocks[Len(parser'.all_blocks)]

\* C25: for every block with a known name that the parser adds to its block
\* list, with or without a body, a parameter-count problem is reported if
\* and only if its number of parameters differs from the schema.
C25_ParamCountChecked ==
    [][ (AddsBlock /\ AddedBlock.name \in KnownBlocks) =>
            ((CountDesc(NewProblems, "Illegal number of params") > 0)
             <=> (Len(AddedBlock.params) # SchemaParams(AddedBlock.name)))
      ]_vars

\* the line begins with a list marker immediately followed by a character
\* that is no whitespace
TightMarker(line) ==
    \/ /\ Len(line) >= 2
       /\ line[1] = "*"
       /\ line[2] \notin whitespace
    \/ /\ Len(line) >= 3
       /\ line[1] \in digits
       /\ line[2] = "."
       /\ line[3] \notin whitespace
ListHints ==
    CountDesc(NewProblems, "Unordered list operator")
    + CountDesc(NewProblems, "Ordered list operator")

\* C26: outside block bodies the list-hint Warning is reported for a line if
\* and only if the line begins with "*" immediately followed by a
\* non-whitespace character, or with a digit and "." immediately followed by
\* a non-whitespace character.
C26_ListHint ==
    [][ (ReadsOutside /\ RunOfLine = 0) =>
            ((ListHints > 0) <=> TightMarker(last'.line))
      ]_vars

\* the line looks like a heading: a run of "=", whitespace, a title
LooksLikeHeading ==
    /\ RunOfLine > 0
    /\ Len(AfterRun) > 0
    /\ AfterRun[1] \in whitespace
    /\ strip(AfterRun) # <<>>

\* C27: inside a block body every line that looks like a heading causes one
\* "heading in block" Warning and is kept in the body, and no bookmark is
\* created for it.
C27_HeadingInBlock ==
    [][ (ReadsInBody /\ LooksLikeHeading) =>
            /\ CountDesc(NewProblems, "Bookmark in block") = 1
            /\ bsm'.uni_lines = Append(bsm.uni_lines, last'.line)
            /\ parser'.bookmarks = parser.bookmarks
      ]_vars

s_column == <<"c", "o", "l", "u", "m", "n">>

\* C28: a heading is marked as a column heading if and only if the word
\* "column" directly follows the run of "="; a heading that is no column
\* heading keeps its full title.
C28_ColumnMarker ==
    [][ ReadsHeading =>
            /\ Len(parser'.bookmarks) = Len(parser.bookmarks) + 1
            /\ NewBookmark.is_column <=> startswith(AfterRun, s_column)
            /\ ~startswith(AfterRun, s_column) =>
                  NewBookmark.title = strip(AfterRun)
      ]_vars

\* C29: for every heading line outside a block body the level of the
\* bookmark is base_level plus the length of the whole run of "=", and no
\* "=" of the run is in the title.
C29_LevelIsRunLength ==
    [][ ReadsHeading =>
            /\ Len(parser'.bookmarks) = Len(parser.bookmarks) + 1
            /\ NewBookmark.level = parser.base_level + RunOfLine
            /\ ~startswith(NewBookmark.title, <<"=">>)
      ]_vars

----------------------------------------------------------------------------
(* The end of a document and the lines of a block body, on SpecParser.      *)

\* the step is the rest of _parse_file_inter after its loop
EndsDocument == pc = "doc" /\ last'.op = "end"

\* the Error of the block machine check and of the end-of-file check of an
\* inline
IsNotEnded(q) == q.desc = "Block is not ended"
IsNoBlock(q) == q.desc = "Inline found but no block for it"

(* C33: at the end of a document the check that the block machine is in     *)
(* BSM_NONE runs first and the end-of-file checks of the inlines run after  *)
(* it: in the retained list the "block not ended" Error of a document comes *)
(* before every end-of-file reference Error of the same document.           *)
C33_BlockCheckFirst ==
    [][ EndsDocument =>
          \A i, j \in 1..Len(NewProblems) :
              (IsNotEnded(NewProblems[i]) /\ IsNoBlock(NewProblems[j]))
                  => i < j
      ]_vars

\* C33 as stated: the "block not ended" Error of a document comes after
\* every end-of-file reference Error of the same document.
C33_BlockCheckLast ==
    [][ EndsDocument =>
          \A i, j \in 1..Len(NewProblems) :
              (IsNotEnded(NewProblems[i]) /\ IsNoBlock(NewProblems[j]))
                  => j < i
      ]_vars

\* a document ended inside a block body and with an inline that no block
\* answers: both Errors are in the retained list
C33_Witness ==
    /\ pc = "idle"
    /\ last.op = "end"
    /\ \E i, j \in (last.problems + 1)..Len(reporter.problems) :
          /\ IsNotEnded(reporter.problems[i])
          /\ IsNoBlock(reporter.problems[j])

\* the step reads a line while the block machine is inside a block body
ReadsBodyLine == pc = "doc" /\ last'.op = "line" /\ bsm.state = BSM_IN_BLOCK

\* the line the step read, decoded
BodyLine == utf_8_sig(input'.lines[Len(input'.lines)])

(* C37: while the block machine is inside a block body, a line adds no      *)
(* bookmark, does not change the chapter index, records no inline and       *)
(* starts no block: it is appended to the body, or it closes the body when  *)
(* it starts with "//}" (the finished block joins the block list).          *)
C37_BodyLineOnlyJoinsBody ==
    [][ ReadsBodyLine =>
          /\ parser'.bookmarks = parser.bookmarks
          /\ parser'.chap_to_bookmark = parser.chap_to_bookmark
          /\ parser'.chap_index = parser.chap_index
          /\ parser'.current_inlines = parser.current_inlines
          /\ parser'.all_inlines = parser.all_inlines
          /\ exc' = "none" =>
                IF startswith(rstrip(BodyLine), <<"/", "/", "}">>)
                THEN /\ bsm'.state = BSM_NONE
                     /\ parser'.all_blocks =
                           Append(parser.all_blocks,
                                  [bsm.unfinished_block
                                      EXCEPT !.uni_lines = bsm.uni_lines])
                ELSE /\ bsm' = [bsm EXCEPT !.uni_lines = Append(@, BodyLine)]
                     /\ parser'.all_blocks = parser.all_blocks
      ]_vars

\* a block body holds a heading line, an inline line and a block opening
\* line, and the parser has no bookmark and no inline
C37_Witness ==
    /\ pc = "doc"
    /\ last.op = "line"
    /\ bsm.state = BSM_IN_BLOCK
    /\ bsm.uni_lines = <<L_chap, L_img, L_image>>
    /\ parser.bookmarks = <<>>
    /\ parser.current_inlines = <<>>
    /\ parser.all_blocks = <<>>

\* a Parser just constructed with the thresholds and the project of the
\* running one
FreshWorld ==
    [rep |-> Parser_reporter(parser.ignore_threshold, parser.abort_threshold),
     par |-> Parser(parser.ignore_threshold, parser.abort_threshold),
     bsm |-> NoBsm, ism |-> NoIsm, prj |-> project, exc |-> "none"]

\* what the running Parser recorded for the current document is what the
\* world w holds
SameOutcome(w) ==
    /\ DocProblems = w.rep.problems
    /\ DocBlocks = w.par.all_blocks
    /\ DocInlines = w.par.all_inlines
    /\ DocBookmarks = w.par.bookmarks

(* C38: a document parsed by a Parser that has parsed other documents gets  *)
(* the same problems, blocks, inlines and bookmarks as the same document    *)
(* parsed by a fresh Parser with the same project and thresholds.           *)
C38_IndependentOfEarlierDocuments ==
    (pc = "idle" /\ last.op = "end") =>
        SameOutcome(Parser_parse_file(FreshWorld, 0, parser.source_name,
                                      input.lines))

----------------------------------------------------------------------------
(* SpecTryCatalog: the loop of _recognize_new_catalog_files, one candidate  *)
(* per step, on a project just reset. The source directory /s holds a.re,   *)
(* b.re, the symlink l.re, catalog.yml and config.yaml; c.re does not exist. *)

\* a mapping of len entries, a mapping whose single title is no string
YamlMapN(len) == [type |-> "dict_n", len |-> len]
YamlIntPart(chaps) == [type |-> "dict_int", chaps |-> chaps]

\* what yaml.load gives for the catalogs that are tried
Y_missing == [PREDEF |-> <<b_re>>, POSTDEF |-> <<>>]
Y_scalar == [PREDEF |-> <<b_re>>, POSTDEF |-> <<>>, CHAPS_scalar |-> a_re]
Y_two_entries ==
    [PREDEF |-> <<b_re>>,
     CHAPS |-> <<YamlPart("P", <<a_re>>), YamlMapN(2)>>,
     POSTDEF |-> <<a_re>>]
Y_no_entry ==
    [PREDEF |-> <<b_re>>, CHAPS |-> <<YamlMapN(0)>>, POSTDEF |-> <<>>]
Y_int_title ==
    [PREDEF |-> <<b_re>>,
     CHAPS |-> <<YamlPart("P", <<a_re>>), YamlIntPart(<<b_re>>)>>,
     POSTDEF |-> <<>>]
Y_bad_chap ==
    [PREDEF |-> <<b_re>>,
     CHAPS |-> <<YamlPart("P", <<a_re>>), YamlPart("Q", <<b_re, c_re>>)>>,
     POSTDEF |-> <<a_re>>]
Y_link_chap ==
    [PREDEF |-> <<>>, CHAPS |-> <<YamlPart("P", <<l_re>>)>>,
     POSTDEF |-> <<>>]
Y_name_in_parts ==
    [PREDEF |-> <<b_re>>,
     CHAPS |-> <<YamlPart("P", <<a_re>>), YamlStr(b_re)>>,
     POSTDEF |-> <<>>]
Y_char_in_parts ==
    [PREDEF |-> <<b_re>>,
     CHAPS |-> <<YamlPart("P", <<a_re>>), YamlStr(<<"x">>)>>,
     POSTDEF |-> <<>>]
Y_part_in_names ==
    [PREDEF |-> <<b_re>>,
     CHAPS |-> <<YamlStr(a_re), YamlPart("P", <<b_re>>)>>,
     POSTDEF |-> <<>>]
TriedYamls ==
    {Y_none, Y_missing, Y_scalar, Y_plain, Y_parts, Y_two_entries,
     Y_no_entry, Y_int_title, Y_bad_chap, Y_link_chap, Y_name_in_parts,
     Y_char_in_parts, Y_part_in_names}

\* the file system of a run
TriedFiles ==
    FileSystem(s_dir,
               InDir(s_dir, {a_re, b_re, l_re, f_catalog_yml, f_config_yaml}),
               InDir(s_dir, {l_re}))

InitTryCatalog ==
    /\ \E y1, y2 \in TriedYamls :
          input = [yamls |-> (f_catalog_yml :> y1 @@ f_config_yaml :> y2),
                   next |-> 1]
    /\ project = ReVIEWProject(TriedFiles)
    /\ parser = NoParser
    /\ reporter = ProblemReporter(INFO, CRITICAL)
    /\ reporter2 = ProblemReporter(INFO, CRITICAL)
    /\ bsm = NoBsm
    /\ ism = NoIsm
    /\ exc = "none"
    /\ pc = "new"
    /\ last = NoLast

\* if self._try_parse_catalog_file(candidate, logger): return True
TryCatalogResult(r, candidate) ==
    /\ project' = r.prj
    /\ exc' = r.exc
    /\ pc' = IF r.exc # "none" THEN "raised"
             ELSE IF r.accepted THEN "structure"
             ELSE IF input.next = Len(new_catalog_candidates) THEN "legacy"
             ELSE "new"
    /\ input' = [input EXCEPT !.next = @ + 1]
    /\ last' = [op |-> "try", accepted |-> r.accepted,
                candidate |-> candidate]

\* one iteration of the loop of _recognize_new_catalog_files
TryCatalog ==
    /\ pc = "new"
    /\ TryCatalogResult(
          _try_parse_catalog_file(
              project, new_catalog_candidates[input.next],
              input.yamls[new_catalog_candidates[input.next]]),
          new_catalog_candidates[input.next])
    /\ UNCHANGED <<reporter, reporter2, parser, bsm, ism>>

NextTryCatalog == TryCatalog

SpecTryCatalog == InitTryCatalog /\ [][NextTryCatalog]_vars

\* the step is an attempt on a candidate that was not accepted
RejectsCatalog == pc = "new" /\ last'.op = "try" /\ ~last'.accepted

(* C34: when a new-format catalog is rejected (CHAPS missing, no list or    *)
(* empty; a part that is no one-entry mapping; a part title that is no      *)
(* string; an invalid chapter name in a part), predef, parts, chaps,        *)
(* postdef, the ordered document list and the catalog file record are what  *)
(* they were before the attempt.                                            *)
C34_RejectedCatalogLeavesProject ==
    [][ RejectsCatalog =>
          /\ project'.predef_filenames = project.predef_filenames
          /\ project'.parts = project.parts
          /\ project'.chaps = project.chaps
          /\ project'.postdef_filenames = project.postdef_filenames
          /\ project'.source_filenames = project.source_filenames
          /\ project'.catalog_file = project.catalog_file
      ]_vars

\* catalog.yml with a part title that is no string, then config.yaml with an
\* invalid chapter name after a valid part and a valid PREDEF, were both
\* rejected
C34_Witness ==
    /\ pc = "legacy"
    /\ last.op = "try"
    /\ ~last.accepted
    /\ last.candidate = f_config_yaml
    /\ input.yamls[f_catalog_yml] = Y_int_title
    /\ input.yamls[f_config_yaml] = Y_bad_chap
    /\ project = ReVIEWProject(TriedFiles)

----------------------------------------------------------------------------
(* The bookmark scan of the project model against the headings of the       *)
(* Parser, on SpecLines.                                                    *)

\* the groups of r_chap of project.py (lines 34-35) on a stripped line:
\* ^(=+)([column]?)(\s*)(.+)$ ; the title needs a character, which the
\* column group or the run of "=" gives back when nothing follows them
project_r_chap_groups(line) ==
    LET run == RunLength(line, {"="})
        rest1 == Drop(line, run)
        column == IF Len(rest1) > 0
                     /\ rest1[1] \in {"c", "o", "l", "u", "m", "n"}
                  THEN <<rest1[1]>> ELSE <<>>
        rest2 == Drop(rest1, Len(column))
        title == Drop(rest2, RunLength(rest2, whitespace))
    IN IF run = 0 THEN [matched |-> FALSE, level |-> 0, title |-> <<>>]
       ELSE IF title # <<>>
       THEN [matched |-> TRUE, level |-> run, title |-> title]
       ELSE IF column # <<>>
       THEN [matched |-> TRUE, level |-> run, title |-> column]
       ELSE IF run >= 2
       THEN [matched |-> TRUE, level |-> run - 1, title |-> <<"=">>]
       ELSE [matched |-> FALSE, level |-> 0, title |-> <<>>]

\* the bookmark ReVIEWProject.parse_single_source_file builds for a heading
project_bookmark(filename, base_level, g, chap_index) ==
    [level |-> base_level + g.level, title |-> strip(g.title),
     source_file_name |-> filename,
     source_chap_index |-> IF g.level = 1 THEN chap_index ELSE NoIndex]

RECURSIVE parse_single_source_loop(_, _, _, _)
\* for line in f: the bookmarks the loop of parse_single_source_file appends
parse_single_source_loop(filename, base_level, lines, chap_index) ==
    IF lines = <<>> THEN <<>>
    ELSE LET g == project_r_chap_groups(rstrip(utf_8_sig(Head(lines))))
         IN IF ~g.matched
            THEN parse_single_source_loop(filename, base_level, Tail(lines),
                                          chap_index)
            ELSE <<project_bookmark(filename, base_level, g, chap_index)>>
                 \o parse_single_source_loop(
                        filename, base_level, Tail(lines),
                        IF g.level = 1 THEN chap_index + 1 ELSE chap_index)

\* ReVIEWProject.parse_single_source_file: the bookmarks it appends
parse_single_source_file(filename, base_level, lines) ==
    parse_single_source_loop(filename, base_level, lines, 0)

\* level, title, source document and chapter index of the Parser's bookmarks
ParserBookmarks ==
    [i \in 1..Len(parser.bookmarks) |->
        [level |-> parser.bookmarks[i].level,
         title |-> parser.bookmarks[i].title,
         source_file_name |-> parser.bookmarks[i].source_file_name,
         source_chap_index |-> parser.bookmarks[i].source_chap_index]]

(* C40: for every document the bookmark scan of the project model and the   *)
(* heading recognition of the Parser give the same sequence of bookmarks,   *)
(* with the same level, title, source document and chapter index, for the   *)
(* same base level.                                                         *)
C40_ScansAgree ==
    (pc = "idle" /\ last.op = "end") =>
        ParserBookmarks =
            parse_single_source_file(parser.source_name, parser.base_level,
                                     input.lines)

====
